---- MODULE Spec2Model ----
(***************************************************************************)
(* A model of nanodis (src/nanodis/__init__.py): the QueueServer object,   *)
(* its command handlers, the expiration index, the schedule, the request   *)
(* dispatcher and the per-connection loop.                                 *)
(*                                                                         *)
(* Python values are tagged records ("payloads"):                          *)
(*   bytes  [kind |-> "bytes", b |-> "x"]     int   [kind |-> "int", i |-> 1] *)
(*   str    [kind |-> "str",   u |-> ""]      None  [kind |-> "null"]      *)
(*   list / deque / tuple  [kind |-> "list", q |-> <<...>>]                *)
(*   dict   [kind |-> "dict", d |-> [field |-> payload]]                   *)
(*   set    [kind |-> "set",  s |-> {...}]                                 *)
(* Container elements (list items, set members, hash fields) are bytes,    *)
(* written as plain strings.                                               *)
(*                                                                         *)
(* A handler is an operator from a store s = [kv, expiry_map, expiry,      *)
(* schedule] and its arguments to a result [s, exc, msg, ret]: the store   *)
(* it leaves behind, the exception it raises ("none" when it returns), the *)
(* exception's message and the value it returns.  An exception raised in   *)
(* the middle of a handler keeps the mutations made before it, as Python   *)
(* does.  time.time() is the discrete clock `now`.                         *)
(***************************************************************************)
EXTENDS Integers, Sequences, FiniteSets, TLC

VARIABLES
    kv,                  \* self._kv: key -> Value(data_type, value)
    expiry_map,          \* self._expiry_map: key -> expiration time
    expiry,              \* self._expiry: heap of <<expires, key>>
    schedule,            \* self._schedule: heap of <<timestamp, payload>>
    now,                 \* time.time()
    active_connections,  \* self._active_connections
    commands_processed,  \* self._commands_processed
    command_errors,      \* self._command_errors
    connections,         \* self._connections
    conn,                \* per connection: handler position, socket buffers
    logged,              \* number of logger.exception records written
    disk,                \* the files written by SAVE: filename -> pickled state
    last                 \* the operation just performed and its outcome

vars == <<kv, expiry_map, expiry, schedule, now, active_connections,
          commands_processed, command_errors, connections, conn, logged, disk,
          last>>

----------------------------------------------------------------------------
(* Bounds of the model *)

MaxTime == 1        \* the clock runs 0..MaxTime
MaxTTL == 0         \* EXPIRE/SETEX/MSETEX seconds are drawn from 0..MaxTTL;
                    \* a TTL of 0 sets the deadline to the current time, which
                    \* the clock passes at its next tick
MaxHeap == 2        \* cap on the number of entries of the expiration heap
MaxList == 2        \* cap on the length of a stored list
MaxInt == 1         \* cap on the magnitude of a stored integer
MaxLog == 2         \* cap on the number of logged exceptions
MaxBuf == 2         \* cap on the requests buffered on one connection

Keys == {"a", "b"}
Elems == {"x", "y"}
Fields == {"f", "g"}
ConnIds == {1, 2}

----------------------------------------------------------------------------
(* Data types (src/nanodis/__init__.py:215-220) *)

KV == 0
HASH == 1
QUEUE == 2
SET == 3

Value(data_type, value) == [data_type |-> data_type, value |-> value]

PyBytes(b) == [kind |-> "bytes", b |-> b]
PyInt(i) == [kind |-> "int", i |-> i]
PyStr(u) == [kind |-> "str", u |-> u]
PyNone == [kind |-> "null"]
PyList(q) == [kind |-> "list", q |-> q]
PyDict(d) == [kind |-> "dict", d |-> d]
PySet(s) == [kind |-> "set", s |-> s]

EmptyMap == [k \in {} |-> PyNone]

WrongType == "Operation agains wrong key type."

(* Results of a handler *)
Ok(s, ret) == [s |-> s, exc |-> "none", msg |-> "", ret |-> ret]
Raise(s, exc, msg) == [s |-> s, exc |-> exc, msg |-> msg, ret |-> PyNone]

(* dict helpers: d[key] = v, del d[key] *)
Put(f, key, v) == [k \in (DOMAIN f) \cup {key} |-> IF k = key THEN v ELSE f[k]]
Del(f, key) == [k \in (DOMAIN f) \ {key} |-> f[k]]

SetKv(s, key, v) == [s EXCEPT !.kv = Put(s.kv, key, v)]
DelKv(s, key) == [s EXCEPT !.kv = Del(s.kv, key)]

----------------------------------------------------------------------------
(* heapq on tuples <<number, key>>: the heap is kept as the sorted sequence *)
(* of its entries; heappop takes the smallest tuple, which is all that the *)
(* program observes of the heap's layout.                                  *)

KeyOrd(k) == CASE k = "a" -> 1 [] k = "b" -> 2 [] OTHER -> 3

TupleLess(x, y) == x[1] < y[1] \/ (x[1] = y[1] /\ KeyOrd(x[2]) < KeyOrd(y[2]))

RECURSIVE heappush(_, _)
heappush(h, item) ==
    IF h = <<>> THEN <<item>>
    ELSE IF TupleLess(item, Head(h)) \/ item = Head(h) THEN <<item>> \o h
    ELSE <<Head(h)>> \o heappush(Tail(h), item)

----------------------------------------------------------------------------
(* Expiration index *)

(* the comparison turned around: a key counts as expired before its time  *)
(* and never after *)
check_expired_reversed(s, key, ts) ==
    key \in DOMAIN s.expiry_map /\ ts < s.expiry_map[key]

check_expired(s, key, ts) ==
    key \in DOMAIN s.expiry_map /\ ts > s.expiry_map[key]

unexpire(s, key) == [s EXCEPT !.expiry_map = Del(s.expiry_map, key)]

(* EXPIRE that records the deadline and pushes nothing on the heap *)
expire_unindexed(s, key, seconds, t) ==
    Ok([s EXCEPT !.expiry_map = Put(s.expiry_map, key, t + seconds)], PyNone)

expire(s, key, seconds, t) ==
    Ok([s EXCEPT !.expiry_map = Put(s.expiry_map, key, t + seconds),
                 !.expiry = heappush(s.expiry, <<t + seconds, key>>)], PyNone)

RECURSIVE clean_loop(_, _, _)
clean_loop(s, ts, n) ==
    IF s.expiry = <<>> THEN Ok(s, PyInt(n))
    ELSE LET expires == Head(s.expiry)[1]
             key == Head(s.expiry)[2]
             popped == [s EXCEPT !.expiry = Tail(s.expiry)]
         IN  IF expires > ts THEN Ok(s, PyInt(n))
             ELSE IF key \in DOMAIN s.expiry_map /\ s.expiry_map[key] = expires
             THEN LET unmapped == unexpire(popped, key)
                  IN  IF key \in DOMAIN s.kv
                      THEN clean_loop(DelKv(unmapped, key), ts, n + 1)
                      ELSE Raise(unmapped, "KeyError", key)
             ELSE clean_loop(popped, ts, n)

(* a sweep that reclaims what expires up to one time unit ahead *)
clean_expired_ahead(s, ts) == clean_loop(s, ts + 1, 0)

clean_expired(s, ts) == clean_loop(s, ts, 0)

check_datatype(s, data_type, key, set_missing, subtype, t) ==
    LET s1 == IF key \in DOMAIN s.kv /\ check_expired(s, key, t)
              THEN DelKv(s, key) ELSE s
    IN  IF key \in DOMAIN s1.kv
        THEN IF s1.kv[key].data_type # data_type
             THEN Raise(s1, "CmdError", WrongType)
             ELSE IF subtype /\ s1.kv[key].value.kind # "int"
             THEN Raise(s1, "CmdError", WrongType)
             ELSE Ok(s1, PyNone)
        ELSE IF set_missing
        THEN Ok(SetKv(s1, key, Value(data_type,
                 CASE data_type = HASH -> PyDict(EmptyMap)
                   [] data_type = QUEUE -> PyList(<<>>)
                   [] data_type = SET -> PySet({})
                   [] OTHER -> PyStr(""))), PyNone)
        ELSE Ok(s1, PyNone)

(* @enforce_datatype(data_type, set_missing, subtype): the pre-check runs   *)
(* on the first positional argument, then the method body.                 *)
enforce_datatype(s, data_type, key, set_missing, subtype, t) ==
    check_datatype(s, data_type, key, set_missing, subtype, t)

----------------------------------------------------------------------------
(* Python sequence helpers *)

Max(x, y) == IF x > y THEN x ELSE y
Min(x, y) == IF x < y THEN x ELSE y

(* seq[begin:end]; has_end = FALSE stands for end = None *)
SliceBound(n, i) == IF i < 0 THEN Max(n + i, 0) ELSE Min(i, n)
Slice(q, begin, has_end, end) ==
    LET n == Len(q)
        b == SliceBound(n, begin)
        e == IF has_end THEN SliceBound(n, end) ELSE n
    IN  IF b < e THEN SubSeq(q, b + 1, e) ELSE <<>>

(* seq[idx] is defined for -len <= idx < len; otherwise IndexError *)
IndexOk(q, idx) == -Len(q) <= idx /\ idx < Len(q)
Pos(q, idx) == IF idx < 0 THEN Len(q) + idx + 1 ELSE idx + 1

RECURSIVE RemoveFirst(_, _)
RemoveFirst(q, v) ==
    IF q = <<>> THEN <<>>
    ELSE IF Head(q) = v THEN Tail(q)
    ELSE <<Head(q)>> \o RemoveFirst(Tail(q), v)

Range(q) == {q[i] : i \in 1..Len(q)}

SetList(s, key, q) == SetKv(s, key, Value(s.kv[key].data_type, PyList(q)))

----------------------------------------------------------------------------
(* List (queue) commands *)

(* deque has no extend_left: the call raises AttributeError after the      *)
(* pre-check has run. *)
lpush(s, key, values, t) ==
    LET c == enforce_datatype(s, QUEUE, key, TRUE, FALSE, t)
    IN  IF c.exc # "none" THEN c
        ELSE Raise(c.s, "AttributeError", "extend_left")

rpush(s, key, values, t) ==
    LET c == enforce_datatype(s, QUEUE, key, TRUE, FALSE, t)
    IN  IF c.exc # "none" THEN c
        ELSE Ok(SetList(c.s, key, c.s.kv[key].value.q \o values),
                PyInt(Len(values)))

lpop(s, key, t) ==
    LET c == enforce_datatype(s, QUEUE, key, TRUE, FALSE, t)
    IN  IF c.exc # "none" THEN c
        ELSE LET q == c.s.kv[key].value.q
             IN  IF q = <<>> THEN Ok(c.s, PyNone)
                 ELSE Ok(SetList(c.s, key, Tail(q)), PyBytes(Head(q)))

rpop(s, key, t) ==
    LET c == enforce_datatype(s, QUEUE, key, TRUE, FALSE, t)
    IN  IF c.exc # "none" THEN c
        ELSE LET q == c.s.kv[key].value.q
             IN  IF q = <<>> THEN Ok(c.s, PyNone)
                 ELSE Ok(SetList(c.s, key, SubSeq(q, 1, Len(q) - 1)),
                         PyBytes(q[Len(q)]))

lrem(s, key, value, t) ==
    LET c == enforce_datatype(s, QUEUE, key, TRUE, FALSE, t)
    IN  IF c.exc # "none" THEN c
        ELSE LET q == c.s.kv[key].value.q
             IN  IF value \in Range(q)
                 THEN Ok(SetList(c.s, key, RemoveFirst(q, value)), PyInt(1))
                 ELSE Ok(c.s, PyInt(0))

llen(s, key, t) ==
    LET c == enforce_datatype(s, QUEUE, key, TRUE, FALSE, t)
    IN  IF c.exc # "none" THEN c
        ELSE Ok(c.s, PyInt(Len(c.s.kv[key].value.q)))

lindex(s, key, idx, t) ==
    LET c == enforce_datatype(s, QUEUE, key, TRUE, FALSE, t)
    IN  IF c.exc # "none" THEN c
        ELSE LET q == c.s.kv[key].value.q
             IN  IF IndexOk(q, idx) THEN Ok(c.s, PyBytes(q[Pos(q, idx)]))
                 ELSE Ok(c.s, PyNone)

lset(s, key, idx, value, t) ==
    LET c == enforce_datatype(s, QUEUE, key, TRUE, FALSE, t)
    IN  IF c.exc # "none" THEN c
        ELSE LET q == c.s.kv[key].value.q
             IN  IF IndexOk(q, idx)
                 THEN Ok(SetList(c.s, key, [q EXCEPT ![Pos(q, idx)] = value]),
                         PyInt(1))
                 ELSE Ok(c.s, PyInt(0))

ltrim(s, key, begin, end, t) ==
    LET c == enforce_datatype(s, QUEUE, key, TRUE, FALSE, t)
    IN  IF c.exc # "none" THEN c
        ELSE LET trimmed == Slice(c.s.kv[key].value.q, begin, TRUE, end)
             IN  Ok(SetKv(c.s, key, Value(QUEUE, PyList(trimmed))),
                    PyInt(Len(trimmed)))

(* deque has no append_left: the attribute lookup raises AttributeError    *)
(* before src.pop() is evaluated, after both pre-checks have run.          *)
rpop_lpush(s, src, dest, t) ==
    LET c == enforce_datatype(s, QUEUE, src, TRUE, FALSE, t)
    IN  IF c.exc # "none" THEN c
        ELSE LET d == check_datatype(c.s, QUEUE, dest, TRUE, FALSE, t)
             IN  IF d.exc # "none" THEN d
                 ELSE Raise(d.s, "AttributeError", "append_left")

lrange(s, key, begin, has_end, end, t) ==
    LET c == enforce_datatype(s, QUEUE, key, TRUE, FALSE, t)
    IN  IF c.exc # "none" THEN c
        ELSE Ok(c.s, PyList(Slice(c.s.kv[key].value.q, begin, has_end, end)))

lflush(s, key, t) ==
    LET c == enforce_datatype(s, QUEUE, key, TRUE, FALSE, t)
    IN  IF c.exc # "none" THEN c
        ELSE Ok(SetList(c.s, key, <<>>), PyInt(Len(c.s.kv[key].value.q)))

----------------------------------------------------------------------------
(* Scalar (KV) commands *)

Present(s, key, t) == key \in DOMAIN s.kv /\ ~check_expired(s, key, t)

(* SET that forgets to call unexpire *)
kv_set_keeps_ttl(s, key, value) ==
    Ok(SetKv(s, key, Value(IF value.kind = "bytes" THEN KV ELSE QUEUE, value)),
       PyInt(1))

kv_set(s, key, value) ==
    LET data_type == CASE value.kind = "dict" -> HASH
                       [] value.kind = "list" -> QUEUE
                       [] value.kind = "set" -> SET
                       [] OTHER -> KV
    IN  Ok(SetKv(unexpire(s, key), key, Value(data_type, value)), PyInt(1))

(* a + b succeeds for operands of the same kind among bytes, str, int and  *)
(* list; every other pair raises TypeError *)
CanAdd(a, b) == a.kind = b.kind /\ a.kind \in {"bytes", "str", "int", "list"}

(* On an existing non-list key the concatenation is bound to a local name  *)
(* only: the stored value is returned as it was. *)
kv_append(s, key, value) ==
    IF key \notin DOMAIN s.kv
    THEN LET r == kv_set(s, key, value) IN Ok(r.s, r.s.kv[key].value)
    ELSE LET kv_value == s.kv[key]
         IN  IF kv_value.data_type = QUEUE
             THEN LET q == IF value.kind = "list"
                           THEN kv_value.value.q \o value.q
                           ELSE Append(kv_value.value.q, value.b)
                      s1 == SetList(s, key, q)
                  IN  Ok(s1, s1.kv[key].value)
             ELSE IF CanAdd(kv_value.value, value)
                  THEN Ok(s, s.kv[key].value)
                  ELSE Raise(s, "CmdError", "Incompatible data types")

kv_incr_(s, key, n) ==
    LET value == IF key \in DOMAIN s.kv THEN s.kv[key].value.i + n ELSE n
    IN  Ok(SetKv(s, key, Value(KV, PyInt(value))), PyInt(value))

kv_decr(s, key, t) ==
    LET c == enforce_datatype(s, KV, key, FALSE, TRUE, t)
    IN  IF c.exc # "none" THEN c ELSE kv_incr_(c.s, key, -1)

kv_incr(s, key, t) ==
    LET c == enforce_datatype(s, KV, key, FALSE, TRUE, t)
    IN  IF c.exc # "none" THEN c ELSE kv_incr_(c.s, key, 1)

kv_incr_by(s, key, n, t) ==
    LET c == enforce_datatype(s, KV, key, FALSE, TRUE, t)
    IN  IF c.exc # "none" THEN c ELSE kv_incr_(c.s, key, n)

kv_delete(s, key) ==
    IF key \in DOMAIN s.kv THEN Ok(DelKv(s, key), PyInt(1)) ELSE Ok(s, PyInt(0))

kv_exists(s, key, t) ==
    Ok(s, PyInt(IF Present(s, key, t) THEN 1 ELSE 0))

kv_get(s, key, t) ==
    IF Present(s, key, t) THEN Ok(s, s.kv[key].value) ELSE Ok(s, PyNone)

kv_getset(s, key, value, t) ==
    LET original == IF Present(s, key, t) THEN s.kv[key].value ELSE PyNone
    IN  Ok(SetKv(s, key, Value(KV, value)), original)

RECURSIVE mdelete_loop(_, _, _)
mdelete_loop(s, keys, n) ==
    IF keys = <<>> THEN Ok(s, PyInt(n))
    ELSE IF Head(keys) \in DOMAIN s.kv
    THEN mdelete_loop(DelKv(s, Head(keys)), Tail(keys), n + 1)
    ELSE mdelete_loop(s, Tail(keys), n)

kv_mdelete(s, keys) == mdelete_loop(s, keys, 0)

(* MGET and MPOP answer a list whose items are values or None; the list is *)
(* kept as a sequence of payloads *)
kv_mget(s, keys, t) ==
    Ok(s, [kind |-> "values",
           items |-> [i \in 1..Len(keys) |->
                        IF Present(s, keys[i], t) THEN s.kv[keys[i]].value
                        ELSE PyNone]])

RECURSIVE mpop_loop(_, _, _, _)
mpop_loop(s, keys, acc, t) ==
    IF keys = <<>> THEN Ok(s, [kind |-> "values", items |-> acc])
    ELSE IF Present(s, Head(keys), t)
    THEN mpop_loop(DelKv(s, Head(keys)), Tail(keys),
                   Append(acc, s.kv[Head(keys)].value), t)
    ELSE mpop_loop(s, Tail(keys), Append(acc, PyNone), t)

kv_mpop(s, keys, t) == mpop_loop(s, keys, <<>>, t)

(* data is a dict: a function from the keys it names to their values *)
kv_mset(s, data) ==
    LET em == [k \in (DOMAIN s.expiry_map) \ (DOMAIN data) |-> s.expiry_map[k]]
        store == [k \in (DOMAIN s.kv) \cup (DOMAIN data) |->
                    IF k \in DOMAIN data THEN Value(KV, data[k]) ELSE s.kv[k]]
    IN  Ok([s EXCEPT !.expiry_map = em, !.kv = store],
           PyInt(Cardinality(DOMAIN data)))

RECURSIVE expire_all(_, _, _, _)
expire_all(s, keys, seconds, t) ==
    IF keys = {} THEN s
    ELSE LET key == CHOOSE k \in keys : TRUE
         IN  expire_all(expire(s, key, seconds, t).s, keys \ {key}, seconds, t)

kv_msetex(s, data, expires, t) ==
    Ok(expire_all(kv_mset(s, data).s, DOMAIN data, expires, t), PyNone)

kv_pop(s, key, t) ==
    IF Present(s, key, t) THEN Ok(DelKv(s, key), s.kv[key].value)
    ELSE Ok(s, PyNone)

kv_setnx(s, key, value, t) ==
    IF Present(s, key, t) THEN Ok(s, PyInt(0))
    ELSE Ok(SetKv(unexpire(s, key), key, Value(KV, value)), PyInt(1))

kv_setex(s, key, value, expires, t) ==
    Ok(expire(kv_set(s, key, value).s, key, expires, t).s, PyInt(1))

kv_len(s) == Ok(s, PyInt(Cardinality(DOMAIN s.kv)))

kv_flush(s) ==
    Ok([s EXCEPT !.kv = EmptyMap, !.expiry = <<>>, !.expiry_map = EmptyMap],
       kv_len(s).ret)

schedule_len(s) == Ok(s, PyInt(Len(s.schedule)))

schedule_flush(s) == Ok([s EXCEPT !.schedule = <<>>], schedule_len(s).ret)

flush_all(s) == Ok(schedule_flush(kv_flush(s).s).s, PyInt(1))

----------------------------------------------------------------------------
(* Hash commands.  A hash is a function from fields to scalar payloads. *)

SetHash(s, key, d) == SetKv(s, key, Value(s.kv[key].data_type, PyDict(d)))

hdel(s, key, field, t) ==
    LET c == enforce_datatype(s, HASH, key, TRUE, FALSE, t)
    IN  IF c.exc # "none" THEN c
        ELSE LET value == c.s.kv[key].value.d
             IN  IF field \in DOMAIN value
                 THEN Ok(SetHash(c.s, key, Del(value, field)), PyInt(1))
                 ELSE Ok(c.s, PyInt(0))

hexists(s, key, field, t) ==
    LET c == enforce_datatype(s, HASH, key, TRUE, FALSE, t)
    IN  IF c.exc # "none" THEN c
        ELSE Ok(c.s, PyInt(IF field \in DOMAIN c.s.kv[key].value.d
                           THEN 1 ELSE 0))

DictGet(d, field) == IF field \in DOMAIN d THEN d[field] ELSE PyNone

hget(s, key, field, t) ==
    LET c == enforce_datatype(s, HASH, key, TRUE, FALSE, t)
    IN  IF c.exc # "none" THEN c
        ELSE Ok(c.s, DictGet(c.s.kv[key].value.d, field))

hgetall(s, key, t) ==
    LET c == enforce_datatype(s, HASH, key, TRUE, FALSE, t)
    IN  IF c.exc # "none" THEN c ELSE Ok(c.s, c.s.kv[key].value)

(* setdefault(field, 0), then value[field] += incr: bytes + int raises     *)
(* TypeError *)
hincrby(s, key, field, incr, t) ==
    LET c == enforce_datatype(s, HASH, key, TRUE, FALSE, t)
    IN  IF c.exc # "none" THEN c
        ELSE LET d0 == c.s.kv[key].value.d
                 d1 == IF field \in DOMAIN d0 THEN d0 ELSE Put(d0, field, PyInt(0))
                 s1 == SetHash(c.s, key, d1)
             IN  IF d1[field].kind # "int" THEN Raise(s1, "TypeError", "+=")
                 ELSE Ok(SetHash(s1, key, Put(d1, field, PyInt(d1[field].i + incr))),
                         PyInt(d1[field].i + incr))

(* list(dict), list(dict.values()), list(set): a list whose order is the   *)
(* container's iteration order, kept as the collection it enumerates *)
Unordered(c) == [kind |-> "unordered", of |-> c]

hkeys(s, key, t) ==
    LET c == enforce_datatype(s, HASH, key, TRUE, FALSE, t)
    IN  IF c.exc # "none" THEN c
        ELSE Ok(c.s, Unordered(DOMAIN c.s.kv[key].value.d))

hlen(s, key, t) ==
    LET c == enforce_datatype(s, HASH, key, TRUE, FALSE, t)
    IN  IF c.exc # "none" THEN c
        ELSE Ok(c.s, PyInt(Cardinality(DOMAIN c.s.kv[key].value.d)))

hmget(s, key, fields, t) ==
    LET c == enforce_datatype(s, HASH, key, TRUE, FALSE, t)
    IN  IF c.exc # "none" THEN c
        ELSE Ok(c.s, PyDict([f \in Range(fields) |->
                                DictGet(c.s.kv[key].value.d, f)]))

hmset(s, key, data, t) ==
    LET c == enforce_datatype(s, HASH, key, TRUE, FALSE, t)
    IN  IF c.exc # "none" THEN c
        ELSE LET d == c.s.kv[key].value.d
             IN  Ok(SetHash(c.s, key,
                        [f \in (DOMAIN d) \cup (DOMAIN data) |->
                           IF f \in DOMAIN data THEN data[f] ELSE d[f]]),
                    PyInt(Cardinality(DOMAIN data)))

hset(s, key, field, value, t) ==
    LET c == enforce_datatype(s, HASH, key, TRUE, FALSE, t)
    IN  IF c.exc # "none" THEN c
        ELSE Ok(SetHash(c.s, key, Put(c.s.kv[key].value.d, field, value)),
                PyInt(1))

hsetnx(s, key, field, value, t) ==
    LET c == enforce_datatype(s, HASH, key, TRUE, FALSE, t)
    IN  IF c.exc # "none" THEN c
        ELSE LET kval == c.s.kv[key].value.d
             IN  IF field \notin DOMAIN kval
                 THEN Ok(SetHash(c.s, key, Put(kval, field, value)), PyInt(1))
                 ELSE Ok(c.s, PyInt(0))

hvals(s, key, t) ==
    LET c == enforce_datatype(s, HASH, key, TRUE, FALSE, t)
    IN  IF c.exc # "none" THEN c
        ELSE Ok(c.s, [kind |-> "values_of", of |-> c.s.kv[key].value.d])

----------------------------------------------------------------------------
(* Set commands *)

SetSet(s, key, m) == SetKv(s, key, Value(s.kv[key].data_type, PySet(m)))

sadd(s, key, members, t) ==
    LET c == enforce_datatype(s, SET, key, TRUE, FALSE, t)
    IN  IF c.exc # "none" THEN c
        ELSE LET m == c.s.kv[key].value.s \cup Range(members)
             IN  Ok(SetSet(c.s, key, m), PyInt(Cardinality(m)))

scard(s, key, t) ==
    LET c == enforce_datatype(s, SET, key, TRUE, FALSE, t)
    IN  IF c.exc # "none" THEN c
        ELSE Ok(c.s, PyInt(Cardinality(c.s.kv[key].value.s)))

sismember(s, key, member, t) ==
    LET c == enforce_datatype(s, SET, key, TRUE, FALSE, t)
    IN  IF c.exc # "none" THEN c
        ELSE Ok(c.s, PyInt(IF member \in c.s.kv[key].value.s THEN 1 ELSE 0))

smembers(s, key, t) ==
    LET c == enforce_datatype(s, SET, key, TRUE, FALSE, t)
    IN  IF c.exc # "none" THEN c ELSE Ok(c.s, c.s.kv[key].value)

(* set.pop() removes an arbitrary member: `popped` is the choice made, a   *)
(* subset of the set with min(n, len) members *)
spop(s, key, n, popped, t) ==
    LET c == enforce_datatype(s, SET, key, TRUE, FALSE, t)
    IN  IF c.exc # "none" THEN c
        ELSE Ok(SetSet(c.s, key, c.s.kv[key].value.s \ popped),
                Unordered(popped))

sremove(s, key, members, t) ==
    LET c == enforce_datatype(s, SET, key, TRUE, FALSE, t)
    IN  IF c.exc # "none" THEN c
        ELSE LET m == c.s.kv[key].value.s
             IN  Ok(SetSet(c.s, key, m \ Range(members)),
                    PyInt(Cardinality(m \cap Range(members))))

(* set(value): the members of a set, the items of a list, the fields of a  *)
(* dict, the byte codes of a bytes string (written as decimal numerals);   *)
(* an int is not iterable *)
ByteCodes(b) == CASE b = "x" -> {"120"} [] b = "y" -> {"121"} [] OTHER -> {}

Iterable(value) == value.kind \in {"set", "list", "dict", "bytes", "str"}

ToSet(value) ==
    CASE value.kind = "set" -> value.s
      [] value.kind = "list" -> Range(value.q)
      [] value.kind = "dict" -> DOMAIN value.d
      [] value.kind = "bytes" -> ByteCodes(value.b)
      [] OTHER -> {}

(* for key in keys: self.check_datatype(SET, key); src -= / |= value *)
RECURSIVE checked_fold(_, _, _, _, _)
checked_fold(s, src, keys, union, t) ==
    IF keys = <<>> THEN Ok(s, PySet(src))
    ELSE LET c == check_datatype(s, SET, Head(keys), TRUE, FALSE, t)
         IN  IF c.exc # "none" THEN c
             ELSE LET m == c.s.kv[Head(keys)].value.s
                  IN  checked_fold(c.s, IF union THEN src \cup m ELSE src \ m,
                                   Tail(keys), union, t)

(* for key in keys: self.check_expired(SET, key); src &= value.            *)
(* check_expired(SET, key) looks up the number 3 in the expiration map and *)
(* has no effect; the key's presence and type are not checked: a missing   *)
(* key raises KeyError, a value that is not a set raises TypeError.        *)
RECURSIVE unchecked_inter(_, _, _)
unchecked_inter(s, src, keys) ==
    IF keys = <<>> THEN Ok(s, PySet(src))
    ELSE IF Head(keys) \notin DOMAIN s.kv THEN Raise(s, "KeyError", Head(keys))
    ELSE IF s.kv[Head(keys)].value.kind # "set" THEN Raise(s, "TypeError", "&=")
    ELSE unchecked_inter(s, src \cap s.kv[Head(keys)].value.s, Tail(keys))

AsList(r) == IF r.exc # "none" THEN r ELSE Ok(r.s, Unordered(r.ret.s))

sdiff(s, key, keys, t) ==
    LET c == enforce_datatype(s, SET, key, TRUE, FALSE, t)
    IN  IF c.exc # "none" THEN c
        ELSE AsList(checked_fold(c.s, c.s.kv[key].value.s, keys, FALSE, t))

sunion(s, key, keys, t) ==
    LET c == enforce_datatype(s, SET, key, TRUE, FALSE, t)
    IN  IF c.exc # "none" THEN c
        ELSE AsList(checked_fold(c.s, c.s.kv[key].value.s, keys, TRUE, t))

sintersec(s, key, keys, t) ==
    LET c == enforce_datatype(s, SET, key, TRUE, FALSE, t)
    IN  IF c.exc # "none" THEN c
        ELSE AsList(unchecked_inter(c.s, c.s.kv[key].value.s, keys))

(* The STORE variants are decorated too, so the pre-check runs on dest;    *)
(* the first source is read without any check. *)
Store(r, dest, t) ==
    IF r.exc # "none" THEN r
    ELSE LET c == check_datatype(r.s, SET, dest, TRUE, FALSE, t)
         IN  IF c.exc # "none" THEN c
             ELSE Ok(SetKv(c.s, dest, Value(SET, r.ret)),
                     PyInt(Cardinality(r.ret.s)))

FirstSource(s, key, rest) ==
    IF key \notin DOMAIN s.kv THEN Raise(s, "KeyError", key)
    ELSE IF ~Iterable(s.kv[key].value) THEN Raise(s, "TypeError", "set()")
    ELSE rest

sdiffstore(s, dest, key, keys, t) ==
    LET c == enforce_datatype(s, SET, dest, TRUE, FALSE, t)
    IN  IF c.exc # "none" THEN c
        ELSE FirstSource(c.s, key,
               Store(checked_fold(c.s, ToSet(c.s.kv[key].value), keys, FALSE, t),
                     dest, t))

sunion_store(s, dest, key, keys, t) ==
    LET c == enforce_datatype(s, SET, dest, TRUE, FALSE, t)
    IN  IF c.exc # "none" THEN c
        ELSE FirstSource(c.s, key,
               Store(checked_fold(c.s, ToSet(c.s.kv[key].value), keys, TRUE, t),
                     dest, t))

sintersec_store(s, dest, key, keys, t) ==
    LET c == enforce_datatype(s, SET, dest, TRUE, FALSE, t)
    IN  IF c.exc # "none" THEN c
        ELSE FirstSource(c.s, key,
               Store(unchecked_inter(c.s, ToSet(c.s.kv[key].value), keys),
                     dest, t))

----------------------------------------------------------------------------
(* Snapshots (SAVE, RESTORE, MERGE).  pickle.dump writes the dict returned *)
(* by _get_state and pickle.load rebuilds it with the same keys, Value     *)
(* tuples and container types, so a file is held as the state it was       *)
(* written from.                                                           *)

PyBool(b) == [kind |-> "bool", v |-> b]

get_state_(s) == [kv |-> s.kv, schedule |-> s.schedule]

(* original.update(updates); return original *)
merge(original, updates) ==
    [k \in (DOMAIN original) \cup (DOMAIN updates) |->
        IF k \in DOMAIN updates THEN updates[k] ELSE original[k]]

(* _set_state ignoring its merge flag *)
set_state_always_merges(s, state, merge_) ==
    [s EXCEPT !.kv = merge(state.kv, s.kv), !.schedule = state.schedule]

set_state_(s, state, merge_) ==
    IF ~merge_
    THEN [s EXCEPT !.kv = state.kv, !.schedule = state.schedule]
    ELSE [s EXCEPT !.kv = merge(state.kv, s.kv), !.schedule = state.schedule]

save_to_disk(s, filename) ==
    Ok([s EXCEPT !.disk = Put(s.disk, filename, get_state_(s))], PyBool(TRUE))

load_from_disk(s, filename, merge_) ==
    IF filename \notin DOMAIN s.disk THEN Ok(s, PyBool(FALSE))
    ELSE Ok(set_state_(s, s.disk[filename], merge_), PyBool(TRUE))

merge_from_disk(s, filename) == load_from_disk(s, filename, TRUE)

----------------------------------------------------------------------------
(* The state machine: one action per operation of the server object.       *)

Cur == [kv |-> kv, expiry_map |-> expiry_map, expiry |-> expiry,
        schedule |-> schedule, disk |-> disk]

RECURSIVE KeySeq(_)
KeySeq(ks) ==
    IF ks = {} THEN <<>>
    ELSE LET k == CHOOSE x \in ks : \A y \in ks : KeyOrd(x) <= KeyOrd(y)
         IN  <<k>> \o KeySeq(ks \ {k})

Abs(i) == IF i < 0 THEN -i ELSE i

ValueBounded(v) ==
    CASE v.kind = "int" -> Abs(v.i) <= MaxInt
      [] v.kind = "list" -> Len(v.q) <= MaxList
      [] v.kind = "dict" -> \A f \in DOMAIN v.d :
                               v.d[f].kind = "int" => Abs(v.d[f].i) <= MaxInt
      [] OTHER -> TRUE

Bounded(s) ==
    /\ Len(s.expiry) <= MaxHeap
    /\ \A k \in DOMAIN s.kv : ValueBounded(s.kv[k].value)

(* the record of an operation: its name, its key arguments, its value     *)
(* argument (None when it has none) and what it raised or returned         *)
Outcome(op, keys, arg, r) ==
    [op |-> op, keys |-> keys, arg |-> arg, exc |-> r.exc, msg |-> r.msg,
     ret |-> r.ret]

(* a method of the server object is called and returns or raises r *)
CallV(op, keys, arg, r) ==
    /\ Bounded(r.s)
    /\ kv' = r.s.kv
    /\ expiry_map' = r.s.expiry_map
    /\ expiry' = r.s.expiry
    /\ schedule' = r.s.schedule
    /\ disk' = r.s.disk
    /\ last' = Outcome(op, keys, arg, r)
    /\ UNCHANGED <<now, active_connections, commands_processed, command_errors,
                   connections, conn, logged>>

Call(op, keys, r) == CallV(op, keys, PyNone, r)

Tick ==
    /\ now < MaxTime
    /\ now' = now + 1
    /\ last' = Outcome("tick", <<>>, PyNone, Ok(Cur, PyNone))
    /\ UNCHANGED <<kv, expiry_map, expiry, schedule, active_connections,
                   commands_processed, command_errors, connections, conn, logged,
                   disk>>

(* the periodic sweep; the step records the heap the sweep found *)
Sweep == CallV("clean_expired", <<>>, PyList(expiry), clean_expired(Cur, now))

CmdEXPIRE(key, seconds) == Call("EXPIRE", <<key>>, expire(Cur, key, seconds, now))

CmdLPUSH(key, values) == Call("LPUSH", <<key>>, lpush(Cur, key, values, now))
CmdRPUSH(key, values) == Call("RPUSH", <<key>>, rpush(Cur, key, values, now))
CmdLPOP(key) == Call("LPOP", <<key>>, lpop(Cur, key, now))
CmdRPOP(key) == Call("RPOP", <<key>>, rpop(Cur, key, now))
CmdLREM(key, value) == Call("LREM", <<key>>, lrem(Cur, key, value, now))
CmdLLEN(key) == Call("LLEN", <<key>>, llen(Cur, key, now))
CmdLINDEX(key, idx) == Call("LINDEX", <<key>>, lindex(Cur, key, idx, now))
CmdLRANGE(key, begin, has_end, end) ==
    Call("LRANGE", <<key>>, lrange(Cur, key, begin, has_end, end, now))
CmdLSET(key, idx, value) == Call("LSET", <<key>>, lset(Cur, key, idx, value, now))
CmdLTRIM(key, begin, end) == Call("LTRIM", <<key>>, ltrim(Cur, key, begin, end, now))
CmdRPOPLPUSH(src, dest) ==
    Call("RPOPLPUSH", <<src, dest>>, rpop_lpush(Cur, src, dest, now))
CmdLFLUSH(key) == Call("LFLUSH", <<key>>, lflush(Cur, key, now))

(* APPEND of a value that is neither bytes nor a list to a stored list is   *)
(* outside the element domain of the model *)
CmdAPPEND(key, value) ==
    /\ (key \in DOMAIN kv /\ kv[key].data_type = QUEUE)
          => value.kind \in {"bytes", "list"}
    /\ CallV("APPEND", <<key>>, value, kv_append(Cur, key, value))
CmdDECR(key) == Call("DECR", <<key>>, kv_decr(Cur, key, now))
CmdDELETE(key) == Call("DELETE", <<key>>, kv_delete(Cur, key))
CmdEXISTS(key) == Call("EXISTS", <<key>>, kv_exists(Cur, key, now))
CmdGET(key) == Call("GET", <<key>>, kv_get(Cur, key, now))
CmdGETSET(key, value) ==
    CallV("GETSET", <<key>>, value, kv_getset(Cur, key, value, now))
CmdINCR(key) == Call("INCR", <<key>>, kv_incr(Cur, key, now))
CmdINCRBY(key, n) == Call("INCRBY", <<key>>, kv_incr_by(Cur, key, n, now))
CmdMDELETE(keys) == Call("MDELETE", keys, kv_mdelete(Cur, keys))
CmdMGET(keys) == Call("MGET", keys, kv_mget(Cur, keys, now))
CmdMPOP(keys) == Call("MPOP", keys, kv_mpop(Cur, keys, now))
CmdMSET(data) == Call("MSET", KeySeq(DOMAIN data), kv_mset(Cur, data))
CmdMSETEX(data, expires) ==
    Call("MSETEX", KeySeq(DOMAIN data), kv_msetex(Cur, data, expires, now))
CmdPOP(key) == Call("POP", <<key>>, kv_pop(Cur, key, now))
CmdSET(key, value) == CallV("SET", <<key>>, value, kv_set(Cur, key, value))
CmdSETNX(key, value) ==
    CallV("SETNX", <<key>>, value, kv_setnx(Cur, key, value, now))
CmdSETEX(key, value, expires) ==
    CallV("SETEX", <<key>>, value, kv_setex(Cur, key, value, expires, now))
CmdLEN == Call("LEN", <<>>, kv_len(Cur))
CmdFLUSH == Call("FLUSH", <<>>, kv_flush(Cur))

CmdHDEL(key, field) == Call("HDEL", <<key>>, hdel(Cur, key, field, now))
CmdHEXISTS(key, field) == Call("HEXISTS", <<key>>, hexists(Cur, key, field, now))
CmdHGET(key, field) == Call("HGET", <<key>>, hget(Cur, key, field, now))
CmdHGETALL(key) == Call("HGETALL", <<key>>, hgetall(Cur, key, now))
CmdHINCRBY(key, field, incr) ==
    Call("HINCRBY", <<key>>, hincrby(Cur, key, field, incr, now))
CmdHKEYS(key) == Call("HKEYS", <<key>>, hkeys(Cur, key, now))
CmdHLEN(key) == Call("HLEN", <<key>>, hlen(Cur, key, now))
CmdHMGET(key, fields) == Call("HMGET", <<key>>, hmget(Cur, key, fields, now))
CmdHMSET(key, data) == Call("HMSET", <<key>>, hmset(Cur, key, data, now))
CmdHSET(key, field, value) ==
    Call("HSET", <<key>>, hset(Cur, key, field, value, now))
CmdHSETNX(key, field, value) ==
    Call("HSETNX", <<key>>, hsetnx(Cur, key, field, value, now))
CmdHVALS(key) == Call("HVALS", <<key>>, hvals(Cur, key, now))

CmdSADD(key, members) == Call("SADD", <<key>>, sadd(Cur, key, members, now))
CmdSCARD(key) == Call("SCARD", <<key>>, scard(Cur, key, now))
CmdSDIFF(key, keys) == Call("SDIFF", <<key>> \o keys, sdiff(Cur, key, keys, now))
CmdSDIFFSTORE(dest, key, keys) ==
    Call("SDIFFSTORE", <<dest, key>> \o keys, sdiffstore(Cur, dest, key, keys, now))
CmdSINTERSEC(key, keys) ==
    Call("SINTERSEC", <<key>> \o keys, sintersec(Cur, key, keys, now))
CmdSINTERSTORE(dest, key, keys) ==
    Call("SINTERSTORE", <<dest, key>> \o keys,
         sintersec_store(Cur, dest, key, keys, now))
CmdSISMEMBER(key, member) ==
    Call("SISMEMBER", <<key>>, sismember(Cur, key, member, now))
CmdSMEMBERS(key) == Call("SMEMBERS", <<key>>, smembers(Cur, key, now))
Poppable(key) ==
    IF key \in DOMAIN kv /\ kv[key].data_type = SET /\ ~check_expired(Cur, key, now)
    THEN kv[key].value.s ELSE {}
CmdSPOP(key, n) ==
    \E popped \in SUBSET Poppable(key) :
        /\ Cardinality(popped) = Min(n, Cardinality(Poppable(key)))
        /\ Call("SPOP", <<key>>, spop(Cur, key, n, popped, now))
CmdSREM(key, members) == Call("SREM", <<key>>, sremove(Cur, key, members, now))
CmdSUNION(key, keys) == Call("SUNION", <<key>> \o keys, sunion(Cur, key, keys, now))
CmdSUNIONSTORE(dest, key, keys) ==
    Call("SUNIONSTORE", <<dest, key>> \o keys,
         sunion_store(Cur, dest, key, keys, now))

CmdSAVE(filename) ==
    CallV("SAVE", <<>>, PyBytes(filename), save_to_disk(Cur, filename))
CmdRESTORE(filename) ==
    CallV("RESTORE", <<>>, PyBytes(filename), load_from_disk(Cur, filename, FALSE))
CmdMERGE(filename) ==
    CallV("MERGE", <<>>, PyBytes(filename), merge_from_disk(Cur, filename))

CmdFLUSHALL == Call("FLUSHALL", <<>>, flush_all(Cur))

----------------------------------------------------------------------------
(* Request dispatch (QueueServer.respond) and the protocol writer.         *)
(* A decoded array is [kind |-> "values", items |-> <<payload, ...>>].     *)

Values(items) == [kind |-> "values", items |-> items]
Error(message) == [kind |-> "error", message |-> message]

(* the keys of self._commands (get_commands) *)
Commands ==
    {"LPUSH", "RPUSH", "LPOP", "RPOP", "LREM", "LLEN", "LINDEX", "LRANGE",
     "LSET", "LTRIM", "RPOPLPUSH", "LFLUSH",
     "APPEND", "DECR", "DELETE", "EXISTS", "GET", "GETSET", "INCR", "INCRBY",
     "MDELETE", "MGET", "MPOP", "MSET", "MSETEX", "POP", "SET", "SETNX",
     "SETEX", "LEN", "FLUSH",
     "HDEL", "HEXISTS", "HGET", "HGETALL", "HINCRBY", "HKEYS", "HLEN", "HMGET",
     "HMSET", "HSET", "HSETNX", "HVALS",
     "SADD", "SCARD", "SDIFF", "SDIFFSTORE", "SINTERSEC", "SINTERSTORE",
     "SISMEMBER", "SMEMBERS", "SPOP", "SREM", "SUNION", "SUNIONSTORE",
     "ADD", "READ", "FLUSH_SCHEDULE", "LENGTH_SCHEDULE",
     "EXPIRE", "INFO", "FLUSHALL", "SAVE", "RESTORE", "MERGE", "QUIT",
     "SHUTDOWN"}

(* bytes.split() and bytes.upper() on the strings of the model *)
Split(b) ==
    CASE b \in {"", " "} -> <<>>
      [] b = "get a" -> <<"get", "a">>
      [] b = "get" -> <<"get">>
      [] OTHER -> <<b>>

Upper(b) ==
    CASE b = "get" -> "GET"
      [] b = "foo" -> "FOO"
      [] b = "quit" -> "QUIT"
      [] OTHER -> b

(* encode(s) and decode(s) begin with isinstance(s, encode), whose second  *)
(* argument is the function encode and not a type: TypeError, for every s  *)
encode(data) == [exc |-> "TypeError", value |-> PyNone]
decode(data) == [exc |-> "TypeError", value |-> PyNone]

----------------------------------------------------------------------------
(* The schedule: a heap of <<datetime, payload>>.  A datetime is kept as   *)
(* the number strptime gives the timestamps of the model; the payloads are *)
(* bytes, which heapq orders when two datetimes are equal.                 *)

TimestampFormat == "Timestamp must be formatted Y-m-d H:M:S"

(* datetime.datetime.strptime(timestamp, fmt): ValueError for a string     *)
(* that does not fit '%Y-%m-%d %H:%M:%S', with '.%f' when it holds a dot   *)
strptime(timestamp) ==
    CASE timestamp = "2000-01-01 00:00:00" -> [exc |-> "none", dt |-> 1]
      [] timestamp = "2000-01-02 00:00:00.5" -> [exc |-> "none", dt |-> 2]
      [] OTHER -> [exc |-> "ValueError", dt |-> 0]

decode_timestamp_(s, timestamp) ==
    LET d == decode(timestamp)
    IN  IF d.exc # "none" THEN Raise(s, d.exc, "isinstance")
        ELSE IF strptime(d.value.u).exc = "ValueError"
        THEN Raise(s, "CmdError", TimestampFormat)
        ELSE Ok(s, PyInt(strptime(d.value.u).dt))

schedule_add(s, timestamp, data) ==
    LET dt == decode_timestamp_(s, timestamp)
    IN  IF dt.exc # "none" THEN dt
        ELSE Ok([s EXCEPT !.schedule = heappush(@, <<dt.ret.i, data>>)], PyInt(1))

RECURSIVE read_loop(_, _, _)
read_loop(s, dt, accum) ==
    IF s.schedule # <<>> /\ Head(s.schedule)[1] <= dt
    THEN read_loop([s EXCEPT !.schedule = Tail(@)], dt,
                   Append(accum, Head(s.schedule)[2]))
    ELSE Ok(s, PyList(accum))

schedule_read(s, timestamp) ==
    LET dt == decode_timestamp_(s, timestamp)
    IN  IF dt.exc # "none" THEN dt ELSE read_loop(s, dt.ret.i, <<>>)

CmdADD(timestamp, data) ==
    CallV("ADD", <<data>>, timestamp, schedule_add(Cur, timestamp, data))
CmdREAD(timestamp) == CallV("READ", <<>>, timestamp, schedule_read(Cur, timestamp))
CmdFLUSH_SCHEDULE == Call("FLUSH_SCHEDULE", <<>>, schedule_flush(Cur))
CmdLENGTH_SCHEDULE == Call("LENGTH_SCHEDULE", <<>>, schedule_len(Cur))

(* the number of positional arguments each handler takes after self:       *)
(* <<fewest, most>>, most = -1 for *args *)
Arity(cmd) ==
    CASE cmd \in {"LEN", "FLUSH", "FLUSH_SCHEDULE", "LENGTH_SCHEDULE", "INFO",
                  "FLUSHALL", "QUIT", "SHUTDOWN"} -> <<0, 0>>
      [] cmd \in {"MDELETE", "MGET", "MPOP"} -> <<0, -1>>
      [] cmd \in {"READ"} -> <<0, 1>>
      [] cmd \in {"MSET"} -> <<0, 1>>
      [] cmd \in {"LPOP", "RPOP", "LLEN", "LFLUSH", "DECR", "DELETE", "EXISTS",
                  "GET", "INCR", "POP", "HGETALL", "HKEYS", "HLEN", "HVALS",
                  "SCARD", "SMEMBERS", "SAVE", "MERGE"} -> <<1, 1>>
      [] cmd \in {"LPUSH", "RPUSH", "HMGET", "SADD", "SDIFF", "SINTERSEC",
                  "SREM", "SUNION"} -> <<1, -1>>
      [] cmd \in {"SPOP", "RESTORE"} -> <<1, 2>>
      [] cmd \in {"LREM", "LINDEX", "RPOPLPUSH", "APPEND", "GETSET", "INCRBY",
                  "MSETEX", "SET", "SETNX", "HDEL", "HEXISTS", "HGET", "HMSET",
                  "SISMEMBER", "ADD", "EXPIRE"} -> <<2, 2>>
      [] cmd \in {"LRANGE", "HINCRBY"} -> <<2, 3>>
      [] cmd \in {"SDIFFSTORE", "SINTERSTORE", "SUNIONSTORE"} -> <<2, -1>>
      [] OTHER -> <<3, 3>>

ArityOk(cmd, n) ==
    Arity(cmd)[1] <= n /\ (Arity(cmd)[2] = -1 \/ n <= Arity(cmd)[2])

(* The call of self._commands[cmd]: binding the arguments raises TypeError *)
(* when their number does not fit the handler.  The handlers reached from  *)
(* the requests of the model are called with their key argument.           *)
Invoke(s, cmd, args, t) ==
    IF ~ArityOk(cmd, Len(args)) THEN Raise(s, "TypeError", "arguments")
    ELSE CASE cmd = "GET" -> kv_get(s, args[1].b, t)
           [] cmd = "SET" -> kv_set(s, args[1].b, args[2])
           [] cmd = "LLEN" -> llen(s, args[1].b, t)
           [] cmd = "QUIT" -> Raise(s, "ClientQuit", "client closed the connection")
           [] cmd = "SHUTDOWN" -> Raise(s, "Shutdown", "shuttin down")
           [] OTHER -> Ok(s, PyNone)

respond(s, data, t) ==
    IF data.kind # "values" /\ data.kind \notin {"bytes", "str"}
    THEN Raise(s, "CmdError", "unrecognized request type")
    ELSE LET items == CASE data.kind = "values" -> data.items
                        [] data.kind = "bytes" ->
                             [i \in 1..Len(Split(data.b)) |-> PyBytes(Split(data.b)[i])]
                        [] OTHER ->
                             [i \in 1..Len(Split(data.u)) |-> PyStr(Split(data.u)[i])]
         IN  IF items = <<>> THEN Raise(s, "IndexError", "list index out of range")
             ELSE IF items[1].kind \notin {"bytes", "str"}
             THEN Raise(s, "CmdError", "First parameter must be a command name")
             ELSE IF items[1].kind = "str" \/ Upper(items[1].b) \notin Commands
             THEN Raise(s, "CmdError", "unrecognized command")
             ELSE IF decode(PyBytes(Upper(items[1].b))).exc # "none"
             THEN Raise(s, decode(PyBytes(Upper(items[1].b))).exc, "isinstance")
             ELSE Invoke(s, Upper(items[1].b), Tail(items), t)

PyFloat(whole, tenths) == [kind |-> "float", whole |-> whole, tenths |-> tenths]
PyDatetime(dt) == [kind |-> "datetime", dt |-> dt]

(* the order in which a dict or a set is iterated: one order of its keys *)
RECURSIVE Iter(_)
Iter(ks) ==
    IF ks = {} THEN <<>>
    ELSE LET k == CHOOSE x \in ks : TRUE IN <<k>> \o Iter(ks \ {k})

(* ProtocolHandler._write: the tokens written to the buffer, or the        *)
(* exception raised while writing.  A str is written through a bytes %s    *)
(* format and an Error through encode(): both raise TypeError.  A float is *)
(* written with %d, which drops its fraction.  A datetime is written as    *)
(* the str of it.  A value of no listed type writes nothing.               *)
RECURSIVE write_(_)
RECURSIVE write_items(_, _)
write_items(items, acc) ==
    IF items = <<>> THEN acc
    ELSE IF acc.exc # "none" THEN acc
    ELSE LET w == write_(Head(items))
         IN  IF w.exc # "none" THEN [exc |-> w.exc, out |-> <<>>]
             ELSE write_items(Tail(items), [exc |-> "none", out |-> acc.out \o w.out])

write_(data) ==
    CASE data.kind = "bytes" -> [exc |-> "none", out |-> <<"$", data.b>>]
      [] data.kind = "str" -> [exc |-> "TypeError", out |-> <<>>]
      [] data.kind = "bool" ->
           [exc |-> "none", out |-> <<":", IF data.v THEN "1" ELSE "0">>]
      [] data.kind = "int" -> [exc |-> "none", out |-> <<":", ToString(data.i)>>]
      [] data.kind = "float" ->
           [exc |-> "none", out |-> <<":", ToString(data.whole)>>]
      [] data.kind = "error" -> [exc |-> encode(data.message).exc, out |-> <<>>]
      [] data.kind = "list" ->
           write_items([i \in 1..Len(data.q) |-> PyBytes(data.q[i])],
                       [exc |-> "none", out |-> <<"*", ToString(Len(data.q))>>])
      [] data.kind = "values" ->
           write_items(data.items,
                       [exc |-> "none", out |-> <<"*", ToString(Len(data.items))>>])
      [] data.kind = "dict" ->
           LET ks == Iter(DOMAIN data.d)
           IN  write_items([i \in 1..(2 * Len(ks)) |->
                              IF i % 2 = 1 THEN PyBytes(ks[(i + 1) \div 2])
                              ELSE data.d[ks[i \div 2]]],
                           [exc |-> "none", out |-> <<"%", ToString(Len(ks))>>])
      [] data.kind = "set" ->
           LET ms == Iter(data.s)
           IN  write_items([i \in 1..Len(ms) |-> PyBytes(ms[i])],
                           [exc |-> "none", out |-> <<"&", ToString(Len(ms))>>])
      [] data.kind = "null" -> [exc |-> "none", out |-> <<"$", "-1">>]
      [] data.kind = "datetime" -> write_(PyStr("datetime"))
      [] OTHER -> [exc |-> "none", out |-> <<>>]

(* write_response: the buffer reaches the socket only if _write returns;   *)
(* socket_file.write and flush raise BrokenPipeError, an OSError, when the *)
(* client has closed the connection                                        *)
write_response(cs, data) ==
    IF write_(data).exc # "none" THEN [exc |-> write_(data).exc, cs |-> cs]
    ELSE IF cs.closed THEN [exc |-> "BrokenPipeError", cs |-> cs]
    ELSE [exc |-> "none", cs |-> [cs EXCEPT !.outbuf = Append(@, write_(data).out)]]

(* ProtocolHandler.handle_request: first_byte = socket_error.read(1), and  *)
(* socket_error is the class OSError, which has no attribute read.  The    *)
(* call raises AttributeError before a byte of the request is consumed.    *)
handle_request(cs) == [exc |-> "AttributeError", data |-> PyNone, cs |-> cs]

request_response(s, cs, processed, errors, t) ==
    LET h == handle_request(cs)
    IN  IF h.exc # "none"
        THEN [s |-> s, cs |-> cs, processed |-> processed, errors |-> errors,
              exc |-> h.exc]
        ELSE LET r == respond(s, h.data, t)
             IN  IF r.exc \in {"Shutdown", "ClientQuit"}
                 THEN LET w == write_response(h.cs, PyInt(1))
                      IN  [s |-> r.s, cs |-> w.cs, processed |-> processed,
                           errors |-> errors,
                           exc |-> IF w.exc # "none" THEN w.exc
                                   ELSE IF r.exc = "Shutdown" THEN "KeyboardInterrupt"
                                   ELSE "ClientQuit"]
                 ELSE LET resp == IF r.exc = "CmdError" THEN Error(r.msg)
                                  ELSE IF r.exc # "none"
                                  THEN Error("unhandled server error")
                                  ELSE r.ret
                          w == write_response(h.cs, resp)
                      IN  [s |-> r.s, cs |-> w.cs,
                           processed |-> IF r.exc = "none" THEN processed + 1
                                         ELSE processed,
                           errors |-> IF r.exc = "CmdError" THEN errors + 1
                                      ELSE errors,
                           exc |-> w.exc]

----------------------------------------------------------------------------
(* The connection loop (QueueServer.connection_handler) *)

(* QueueServer(max_clients=...): the configured cap, one less than the     *)
(* connections that may arrive.  Only the gevent branch of __init__ hands  *)
(* it to a Pool; ThreadedStreamServer is built from the address and the    *)
(* handler alone and starts a thread for every connection.                 *)
max_clients == Cardinality(ConnIds) - 1

(* a connection is accepted: the handler starts *)
Accept(c) ==
    /\ conn[c].pc = "none"
    /\ conn' = [conn EXCEPT ![c].pc = "loop"]
    /\ active_connections' = active_connections + 1
    /\ last' = [op |-> "accept", keys |-> <<>>, arg |-> PyNone, exc |-> "none",
                msg |-> "", ret |-> PyNone, c |-> c]
    /\ UNCHANGED <<kv, expiry_map, expiry, schedule, now, commands_processed,
                   command_errors, connections, logged, disk>>

(* the client sends a request: it waits in the socket's read buffer *)
ClientSend(c, data) ==
    /\ conn[c].pc = "loop"
    /\ ~conn[c].closed
    /\ Len(conn[c].inbuf) < MaxBuf
    /\ conn' = [conn EXCEPT ![c].inbuf = Append(@, data)]
    /\ last' = [op |-> "send", keys |-> <<>>, arg |-> PyNone, exc |-> "none",
                msg |-> "", ret |-> PyNone, c |-> c]
    /\ UNCHANGED <<kv, expiry_map, expiry, schedule, now, active_connections,
                   commands_processed, command_errors, connections, logged, disk>>

(* the client closes its stream: after the buffered requests, reads of the *)
(* socket file return no byte *)
ClientClose(c) ==
    /\ conn[c].pc = "loop"
    /\ ~conn[c].closed
    /\ conn' = [conn EXCEPT ![c].closed = TRUE]
    /\ last' = [op |-> "close", keys |-> <<>>, arg |-> PyNone, exc |-> "none",
                msg |-> "", ret |-> PyNone, c |-> c]
    /\ UNCHANGED <<kv, expiry_map, expiry, schedule, now, active_connections,
                   commands_processed, command_errors, connections, logged, disk>>

(* one iteration of the while loop: request_response and the except        *)
(* clauses around it *)
Serve(c) ==
    LET rr == request_response(Cur, conn[c], commands_processed, command_errors, now)
        logs == rr.exc \notin {"none", "EOFError", "ClientQuit", "KeyboardInterrupt"}
    IN  /\ conn[c].pc = "loop"
        /\ logs => logged < MaxLog
        /\ kv' = rr.s.kv
        /\ expiry_map' = rr.s.expiry_map
        /\ expiry' = rr.s.expiry
        /\ schedule' = rr.s.schedule
        /\ disk' = rr.s.disk
        /\ commands_processed' = rr.processed
        /\ command_errors' = rr.errors
        /\ logged' = IF logs THEN logged + 1 ELSE logged
        /\ conn' = [conn EXCEPT ![c] =
              [rr.cs EXCEPT !.pc = CASE rr.exc \in {"EOFError", "ClientQuit"} -> "done"
                                     [] rr.exc = "KeyboardInterrupt" -> "interrupted"
                                     [] OTHER -> "loop"]]
        /\ active_connections' = IF rr.exc \in {"EOFError", "ClientQuit"}
                                 THEN active_connections - 1
                                 ELSE active_connections
        /\ last' = [op |-> "serve", keys |-> <<>>, arg |-> PyNone, exc |-> rr.exc,
                    msg |-> "", ret |-> PyNone, c |-> c]
        /\ UNCHANGED <<now, connections>>

(* INCR key run by the handler thread of connection c.  ThreadedStreamServer *)
(* runs every connection_handler in a thread of its own (ThreadingMixIn)    *)
(* and no lock guards the server object, so another thread may run between  *)
(* the statements of kv_incr: the pre-check of the decorator, the read      *)
(* "value = self._kv[key].value + n" and the store of the new Value.        *)
ThreadStep(c, op, key, exc, msg, ret) ==
    [op |-> op, keys |-> <<key>>, arg |-> PyNone, exc |-> exc, msg |-> msg,
     ret |-> ret, c |-> c]

IncrCheck(c, key) ==
    LET r == enforce_datatype(Cur, KV, key, FALSE, TRUE, now)
    IN  /\ conn[c].pc = "loop"
        /\ kv' = r.s.kv
        /\ conn' = [conn EXCEPT ![c].pc = IF r.exc = "none" THEN "incr_checked"
                                          ELSE "loop",
                                ![c].key = IF r.exc = "none" THEN key ELSE @]
        /\ last' = ThreadStep(c, IF r.exc = "none" THEN "incr_check" ELSE "INCR",
                              key, r.exc, r.msg, PyNone)
        /\ UNCHANGED <<expiry_map, expiry, schedule, now, active_connections,
                       commands_processed, command_errors, connections, logged,
                       disk>>

IncrRead(c) ==
    LET key == conn[c].key
        value == IF key \in DOMAIN kv THEN kv[key].value.i + 1 ELSE 1
    IN  /\ conn[c].pc = "incr_checked"
        /\ key \in DOMAIN kv => kv[key].value.kind = "int"
        /\ conn' = [conn EXCEPT ![c].pc = "incr_read", ![c].value = value]
        /\ last' = ThreadStep(c, "incr_read", key, "none", "", PyNone)
        /\ UNCHANGED <<kv, expiry_map, expiry, schedule, now, active_connections,
                       commands_processed, command_errors, connections, logged,
                       disk>>

IncrWrite(c) ==
    LET key == conn[c].key
        value == conn[c].value
    IN  /\ conn[c].pc = "incr_read"
        /\ value <= MaxInt
        /\ kv' = Put(kv, key, Value(KV, PyInt(value)))
        /\ conn' = [conn EXCEPT ![c].pc = "loop", ![c].key = "", ![c].value = 0]
        /\ last' = ThreadStep(c, "INCR", key, "none", "", PyInt(value))
        /\ UNCHANGED <<expiry_map, expiry, schedule, now, active_connections,
                       commands_processed, command_errors, connections, logged,
                       disk>>

(* respond(data) called on a decoded request *)
CallRespond(data) == CallV("respond", <<>>, data, respond(Cur, data, now))

(* the command names bound with command(...) in the client library *)
ClientCommands ==
    {"LPUSH", "RPUSH", "LPOP", "RPOP", "LREM", "LLEN", "LINDEX", "LRANGE",
     "LSET", "LTRIM", "RPOPLPUSH", "LFLUSH",
     "APPEND", "DECR", "DECRBY", "DELETE", "EXISTS", "GET", "GETSET", "INCR",
     "INCRBY", "MDELETE", "MGET", "MPOP", "MSET", "MSETEX", "POP", "SET",
     "SETEX", "SETNX", "LEN", "FLUSH",
     "HDEL", "HEXISTS", "HGET", "HGETALL", "HINCRBY", "HKEYS", "HLEN", "HMGET",
     "HMSET", "HSET", "HSETNX", "HVALS",
     "SADD", "SCARD", "SDIFF", "SDIFFSTORE", "SINTER", "SINTERSTORE",
     "SISMEMBER", "SMEMBERS", "SPOP", "SREM", "SUNION", "SUNIONSTORE",
     "ADD", "READ", "FLUSH_SCHEDULE", "LENGTH_SCHEDULE",
     "EXPIRE", "INFO", "FLUSHALL", "SAVE", "RESTORE", "MERGE", "QUIT",
     "SHUTDOWN"}

(* a method of the client library bound to cmd is called: execute sends    *)
(* the array that begins with the name cmd, and the server dispatches it   *)
ClientMethod(cmd, args) ==
    CallV("client", <<>>, Values(<<PyBytes(cmd)>> \o args),
          respond(Cur, Values(<<PyBytes(cmd)>> \o args), now))

(* a value is written by one end of a connection with write_response and   *)
(* read by the other with handle_request, as Client.execute and the        *)
(* connection loop do with requests and responses                          *)
CodecRoundTrip(data) ==
    LET cs == [pc |-> "loop", inbuf |-> <<>>, outbuf |-> <<>>, closed |-> FALSE,
               key |-> "", value |-> 0]
        w == write_response(cs, data)
        h == handle_request([w.cs EXCEPT !.inbuf = w.cs.outbuf, !.outbuf = <<>>])
    IN  CallV("codec", <<>>, data,
              IF w.exc # "none" THEN Raise(Cur, w.exc, "_write")
              ELSE IF h.exc # "none" THEN Raise(Cur, h.exc, "handle_request")
              ELSE Ok(Cur, h.data))

----------------------------------------------------------------------------
(* Inputs *)

Seconds == 0..MaxTTL
KeySeqs == {<<"a">>, <<"a", "b">>, <<"b", "a">>}
MoreKeys == {<<>>} \cup {<<k>> : k \in Keys}
Scalars == {PyBytes("x"), PyInt(1)}
Containers == {PyList(<<"x">>), PyDict([f \in {"f"} |-> PyBytes("x")]), PySet({"x"})}
Payloads == Scalars \cup Containers
Dicts(vals) == UNION {[ks -> vals] : ks \in (SUBSET Keys) \ {{}}}

Init ==
    /\ kv = EmptyMap
    /\ expiry_map = EmptyMap
    /\ expiry = <<>>
    /\ schedule = <<>>
    /\ now = 0
    /\ active_connections = 0
    /\ commands_processed = 0
    /\ command_errors = 0
    /\ connections = 0
    /\ conn = [c \in ConnIds |-> [pc |-> "none", inbuf |-> <<>>, outbuf |-> <<>>,
                                   closed |-> FALSE, key |-> "", value |-> 0]]
    /\ logged = 0
    /\ disk = EmptyMap
    /\ last = [op |-> "init", keys |-> <<>>, arg |-> PyNone, exc |-> "none",
               msg |-> "", ret |-> PyNone]

(* The scalar commands and the expiration index; the numeric commands    *)
(* run under NextHash                                                     *)
Next ==
    \/ \E key \in Keys, value \in {PyBytes("x"), PyBytes("y")} : CmdSET(key, value)
    \/ \E key \in Keys, value \in {PyBytes("y")} : CmdSETNX(key, value)
    \/ \E key \in Keys, value \in {PyBytes("y")} : CmdGETSET(key, value)
    \/ \E data \in Dicts({PyBytes("x")}) : CmdMSET(data)
    \/ \E key \in Keys : CmdGET(key)
    \/ \E key \in Keys : CmdEXISTS(key)
    \/ \E keys \in KeySeqs : CmdMGET(keys)
    \/ \E key \in Keys : CmdPOP(key)
    \/ \E keys \in KeySeqs : CmdMPOP(keys)
    \/ \E key \in Keys : CmdDELETE(key)
    \/ \E keys \in KeySeqs : CmdMDELETE(keys)
    \/ CmdLEN
    \/ CmdFLUSH
    \/ CmdFLUSHALL
    \/ \E key \in Keys, seconds \in Seconds : CmdEXPIRE(key, seconds)
    \/ \E key \in Keys, value \in {PyBytes("x")}, expires \in Seconds :
          CmdSETEX(key, value, expires)
    \/ \E data \in Dicts({PyBytes("x")}), expires \in Seconds : CmdMSETEX(data, expires)
    \/ Sweep
    \/ Tick

(* The list commands, on a store without expirations *)
NextList ==
    \/ \E key \in Keys, value \in Payloads : CmdSET(key, value)
    \/ \E key \in Keys : CmdDELETE(key)
    \/ \E key \in Keys, value \in {PyBytes("x"), PyList(<<"y">>), PyInt(1)} :
          CmdAPPEND(key, value)
    \/ \E key \in Keys, values \in {<<"x">>, <<"x", "y">>} : CmdLPUSH(key, values)
    \/ \E key \in Keys, values \in {<<"x">>, <<"x", "y">>} : CmdRPUSH(key, values)
    \/ \E key \in Keys : CmdLPOP(key)
    \/ \E key \in Keys : CmdRPOP(key)
    \/ \E key \in Keys, value \in Elems : CmdLREM(key, value)
    \/ \E key \in Keys : CmdLLEN(key)
    \/ \E key \in Keys, idx \in {-1, 0} : CmdLINDEX(key, idx)
    \/ \E key \in Keys, has_end \in BOOLEAN : CmdLRANGE(key, 0, has_end, -1)
    \/ \E key \in Keys, idx \in {-1, 0} : CmdLSET(key, idx, "y")
    \/ \E key \in Keys, begin \in {0, 1} : CmdLTRIM(key, begin, 1)
    \/ \E src \in Keys, dest \in Keys : CmdRPOPLPUSH(src, dest)
    \/ \E key \in Keys : CmdLFLUSH(key)

(* The hash commands and the numeric scalar commands *)
NextHash ==
    \/ \E key \in Keys, value \in Payloads : CmdSET(key, value)
    \/ \E key \in Keys : CmdDELETE(key)
    \/ \E key \in Keys : CmdINCR(key)
    \/ \E key \in Keys : CmdDECR(key)
    \/ \E key \in Keys, n \in {-1, 2} : CmdINCRBY(key, n)
    \/ \E key \in Keys, field \in Fields : CmdHDEL(key, field)
    \/ \E key \in Keys, field \in Fields : CmdHEXISTS(key, field)
    \/ \E key \in Keys, field \in Fields : CmdHGET(key, field)
    \/ \E key \in Keys : CmdHGETALL(key)
    \/ \E key \in Keys, field \in Fields : CmdHINCRBY(key, field, 1)
    \/ \E key \in Keys : CmdHKEYS(key)
    \/ \E key \in Keys : CmdHLEN(key)
    \/ \E key \in Keys, fields \in {<<"f">>, <<"f", "g">>} : CmdHMGET(key, fields)
    \/ \E key \in Keys, field \in Fields :
          CmdHMSET(key, [f \in {field} |-> PyBytes("x")])
    \/ \E key \in Keys, field \in Fields, value \in Scalars :
          CmdHSET(key, field, value)
    \/ \E key \in Keys, field \in Fields : CmdHSETNX(key, field, PyBytes("y"))
    \/ \E key \in Keys : CmdHVALS(key)

(* The set commands *)
NextSet ==
    \/ \E key \in Keys, value \in Payloads : CmdSET(key, value)
    \/ \E key \in Keys : CmdDELETE(key)
    \/ \E key \in Keys, members \in {<<"x">>, <<"y">>} : CmdSADD(key, members)
    \/ \E key \in Keys : CmdSCARD(key)
    \/ \E key \in Keys : CmdSISMEMBER(key, "x")
    \/ \E key \in Keys : CmdSMEMBERS(key)
    \/ \E key \in Keys : CmdSPOP(key, 1)
    \/ \E key \in Keys : CmdSREM(key, <<"x">>)
    \/ \E key \in Keys, keys \in MoreKeys : CmdSDIFF(key, keys)
    \/ \E key \in Keys, keys \in MoreKeys : CmdSINTERSEC(key, keys)
    \/ \E key \in Keys, keys \in MoreKeys : CmdSUNION(key, keys)
    \/ \E dest \in Keys, key \in Keys, keys \in MoreKeys :
          CmdSDIFFSTORE(dest, key, keys)
    \/ \E dest \in Keys, key \in Keys, keys \in MoreKeys :
          CmdSINTERSTORE(dest, key, keys)
    \/ \E dest \in Keys, key \in Keys, keys \in MoreKeys :
          CmdSUNIONSTORE(dest, key, keys)

Spec == Init /\ [][Next]_vars

(* requests a client sends, as the decoder is meant to deliver them *)
Requests ==
    {Values(<<PyBytes("GET"), PyBytes("a")>>), Values(<<PyBytes("GET")>>),
     Values(<<PyBytes("FOO")>>), Values(<<PyBytes("QUIT")>>),
     Values(<<PyBytes("SHUTDOWN")>>)}

(* decoded requests handed to respond *)
Decoded ==
    Requests \cup
    {Values(<<PyBytes("SET"), PyBytes("a"), PyBytes("x"), PyBytes("y")>>),
     Values(<<PyBytes("SHUTDOWN")>>), Values(<<>>), Values(<<PyInt(3)>>),
     PyBytes("get a"), PyBytes(""), PyStr("get a"), PyInt(3), PyNone}

(* The connection loop and the dispatcher *)
NextConn ==
    \/ \E c \in ConnIds : Accept(c)
    \/ \E c \in ConnIds, data \in Requests : ClientSend(c, data)
    \/ \E c \in ConnIds : ClientClose(c)
    \/ \E c \in ConnIds : Serve(c)
    \/ \E data \in Decoded : CallRespond(data)

SpecConn == Init /\ [][NextConn]_vars

SpecList == Init /\ [][NextList]_vars

SpecHash == Init /\ [][NextHash]_vars

SpecSet == Init /\ [][NextSet]_vars

(* Handler threads of the threaded transport running INCR, with DELETE    *)
(* called in between *)
NextThreads ==
    \/ \E c \in ConnIds : Accept(c)
    \/ \E c \in ConnIds, key \in Keys : IncrCheck(c, key)
    \/ \E c \in ConnIds : IncrRead(c)
    \/ \E c \in ConnIds : IncrWrite(c)
    \/ \E key \in Keys : CmdDELETE(key)

SpecThreads == Init /\ [][NextThreads]_vars

(* filenames: SAVE writes f; g is never written *)
Files == {"f", "g"}

(* Snapshots of a store of scalars and lists, some with a TTL *)
NextSnap ==
    \/ \E key \in Keys, value \in {PyBytes("x"), PyList(<<"x">>)} : CmdSET(key, value)
    \/ \E key \in Keys : CmdDELETE(key)
    \/ \E key \in Keys : CmdEXPIRE(key, 0)
    \/ CmdSAVE("f")
    \/ \E filename \in Files : CmdRESTORE(filename)
    \/ \E filename \in Files : CmdMERGE(filename)
    \/ CmdFLUSHALL

SpecSnap == Init /\ [][NextSnap]_vars

(* TTLs of the sweep's specification: a deadline may lie ahead of the clock *)
Deadlines == {0, MaxTTL + 1}

(* The commands that give, refresh or clear a TTL, the flushes, RESTORE    *)
(* and the sweep *)
NextSweep ==
    \/ \E key \in Keys : CmdSET(key, PyBytes("x"))
    \/ \E key \in Keys : CmdSETNX(key, PyBytes("x"))
    \/ \E data \in Dicts({PyBytes("x")}) : CmdMSET(data)
    \/ \E key \in Keys : CmdDELETE(key)
    \/ \E key \in Keys, seconds \in Deadlines : CmdEXPIRE(key, seconds)
    \/ \E key \in Keys, expires \in Deadlines : CmdSETEX(key, PyBytes("x"), expires)
    \/ \E data \in Dicts({PyBytes("x")}), expires \in Deadlines :
          CmdMSETEX(data, expires)
    \/ CmdFLUSH
    \/ CmdFLUSHALL
    \/ CmdSAVE("f")
    \/ CmdRESTORE("f")
    \/ Sweep
    \/ Tick

SpecSweep == Init /\ [][NextSweep]_vars

(* Dispatch of decoded frames of every shape and of the client library's   *)
(* commands, on a store that SET and DELETE fill and empty *)
NextClient ==
    \/ \E key \in Keys, value \in Scalars : CmdSET(key, value)
    \/ \E key \in Keys : CmdDELETE(key)
    \/ \E data \in Decoded \cup {PyBytes(" "), PyDict(EmptyMap), PySet({"x"})} :
          CallRespond(data)
    \/ \E cmd \in ClientCommands, args \in {<<>>, <<PyBytes("a")>>} :
          ClientMethod(cmd, args)

SpecClient == Init /\ [][NextClient]_vars

(* timestamps given to ADD and READ: two well-formed ones, the later with  *)
(* a fraction, and a malformed one *)
Timestamps ==
    {PyBytes("2000-01-01 00:00:00"), PyBytes("2000-01-02 00:00:00.5"),
     PyBytes("tomorrow")}

(* one value of each type the writer knows, and containers in a container *)
CodecValues ==
    {PyBytes("x"), PyStr("x"), PyInt(1), PyFloat(1, 5), PyBool(TRUE), PyNone,
     PyList(<<"x">>), PyDict([f \in {"f"} |-> PyInt(1)]), PySet({"x"}),
     Error("x"), PyDatetime(1),
     Values(<<PyList(<<"x">>), PyDict([f \in {"f"} |-> PyNone])>>)}

(* The commands that store a payload as given, the schedule and the codec *)
NextValues ==
    \/ \E key \in Keys, value \in Payloads : CmdSET(key, value)
    \/ \E key \in Keys, value \in Payloads : CmdSETNX(key, value)
    \/ \E key \in Keys, value \in Payloads : CmdGETSET(key, value)
    \/ \E data \in Dicts({PyBytes("x"), PyList(<<"x">>)}) : CmdMSET(data)
    \/ \E key \in Keys : CmdDELETE(key)
    \/ \E timestamp \in Timestamps, data \in Keys : CmdADD(timestamp, data)
    \/ \E timestamp \in Timestamps \cup {PyNone} : CmdREAD(timestamp)
    \/ CmdFLUSH_SCHEDULE
    \/ CmdLENGTH_SCHEDULE
    \/ \E data \in CodecValues : CodecRoundTrip(data)

SpecValues == Init /\ [][NextValues]_vars

----------------------------------------------------------------------------
(* Properties *)

StoreVars == <<kv, expiry_map, expiry, schedule>>

(* key has passed its expiration in the current state *)
Expired(key) == key \in DOMAIN expiry_map /\ now > expiry_map[key]

ListOps == {"LPUSH", "RPUSH", "LPOP", "RPOP", "LREM", "LLEN", "LINDEX",
            "LRANGE", "LSET", "LTRIM", "RPOPLPUSH", "LFLUSH"}
HashOps == {"HDEL", "HEXISTS", "HGET", "HGETALL", "HINCRBY", "HKEYS", "HLEN",
            "HMGET", "HMSET", "HSET", "HSETNX", "HVALS"}
SetOps == {"SADD", "SCARD", "SDIFF", "SDIFFSTORE", "SINTERSEC", "SINTERSTORE",
           "SISMEMBER", "SMEMBERS", "SPOP", "SREM", "SUNION", "SUNIONSTORE"}
NumOps == {"INCR", "DECR", "INCRBY"}

(* the variant a type-specific command requires *)
Required(op) ==
    CASE op \in ListOps -> QUEUE
      [] op \in HashOps -> HASH
      [] op \in SetOps -> SET
      [] OTHER -> KV

(* key holds, unexpired, a value the command op does not accept *)
Mismatch(op, key) ==
    /\ key \in DOMAIN kv
    /\ ~Expired(key)
    /\ \/ kv[key].data_type # Required(op)
       \/ op \in NumOps /\ kv[key].value.kind # "int"

(* C1: a type-specific command issued against a present, unexpired key of  *)
(* another variant ends with the wrong-key-type CmdError and leaves the    *)
(* keyspace, the expiration map and heap and the schedule as they were.    *)
C1_WrongTypeRejected ==
    [][\A i \in 1..Len(last'.keys) :
          (last'.op \in ListOps \cup HashOps \cup SetOps \cup NumOps
             /\ Mismatch(last'.op, last'.keys[i]))
          => (last'.exc = "CmdError" /\ last'.msg = WrongType /\ StoreVars' = StoreVars)]_vars

(* C2: once the clock has passed expiry_map[k], swept or not, GET k and    *)
(* POP k return None, EXISTS k returns 0, and MGET and MPOP return None in *)
(* k's position.                                                           *)
C2_ExpiredReadsAsAbsent ==
    [][/\ (last'.op \in {"GET", "POP"} /\ Expired(last'.keys[1]))
             => (last'.exc = "none" /\ last'.ret = PyNone)
       /\ (last'.op = "EXISTS" /\ Expired(last'.keys[1]))
             => (last'.exc = "none" /\ last'.ret = PyInt(0))
       /\ last'.op \in {"MGET", "MPOP"}
             => \A i \in 1..Len(last'.keys) :
                   Expired(last'.keys[i]) => last'.ret.items[i] = PyNone]_vars

(* GET has just answered None for a key that is still stored, unswept,     *)
(* past its expiration *)
C2_Witness ==
    /\ last.op = "GET"
    /\ last.keys[1] \in DOMAIN kv
    /\ Expired(last.keys[1])
    /\ last.ret = PyNone

(* the step wrote, deleted or gave a TTL to key, or flushed the keyspace *)
Touches(l, key) ==
    \/ l.op \in {"FLUSH", "FLUSHALL"}
    \/ l.op \notin {"GET", "EXISTS", "MGET"} /\ key \in Range(l.keys)

(* C3: SET k v2 stores v2 and removes k from expiry_map, whatever TTL was  *)
(* recorded before; from then on GET k returns the stored value, and       *)
(* neither the clock nor a sweep nor a command on another key removes the  *)
(* value or gives k an expiration.                                         *)
C3_SetUnexpires ==
    [][/\ last'.op = "SET"
             => (last'.keys[1] \notin DOMAIN expiry_map'
                 /\ kv'[last'.keys[1]].value = last'.arg)
       /\ \A k \in Keys :
             (k \in DOMAIN kv /\ k \notin DOMAIN expiry_map)
             => /\ (last'.op = "GET" /\ last'.keys[1] = k)
                      => last'.ret = kv[k].value
                /\ ~Touches(last', k)
                      => (k \in DOMAIN kv' /\ kv'[k] = kv[k]
                          /\ k \notin DOMAIN expiry_map')]_vars

(* SET has just overwritten a key whose earlier TTL is still in the heap *)
C3_Witness ==
    /\ last.op = "SET"
    /\ last.keys[1] \notin DOMAIN expiry_map
    /\ \E i \in 1..Len(expiry) : expiry[i][2] = last.keys[1] /\ expiry[i][1] < now
    /\ kv[last.keys[1]].value = last.arg

(* C4: a command that stores a fresh value under k without setting a TTL   *)
(* (SET, SETNX that inserts, GETSET, MSET, INCR on an absent or expired    *)
(* key) leaves k absent from expiry_map.                                   *)
C4_FreshValueUnexpired ==
    [][\A i \in 1..Len(last'.keys) :
          (/\ last'.exc = "none"
           /\ \/ last'.op \in {"SET", "GETSET", "MSET"}
              \/ last'.op = "SETNX" /\ last'.ret = PyInt(1)
              \/ last'.op \in NumOps
                   /\ (last'.keys[i] \notin DOMAIN kv \/ Expired(last'.keys[i])))
          => last'.keys[i] \notin DOMAIN expiry_map']_vars

(* C5: a command that observes a stored key past its expiration (GET,      *)
(* EXISTS, MGET, POP, MPOP) removes it from the keyspace.                  *)
C5_ObservedExpiredRemoved ==
    [][\A i \in 1..Len(last'.keys) :
          (last'.op \in {"GET", "EXISTS", "MGET", "POP", "MPOP"}
             /\ last'.keys[i] \in DOMAIN kv /\ Expired(last'.keys[i]))
          => last'.keys[i] \notin DOMAIN kv']_vars

(* C6: a read-side command on an absent key returns the empty result of    *)
(* its type and leaves the keyspace unchanged.                             *)
C6_ReadOfAbsentKeyCreatesNothing ==
    [][(last'.op \in {"LLEN", "LINDEX", "LRANGE", "HGET", "HGETALL", "HKEYS",
                      "HVALS", "HLEN", "HEXISTS", "HMGET", "SCARD", "SISMEMBER",
                      "SMEMBERS"}
          /\ last'.keys[1] \notin DOMAIN kv)
       => (last'.exc = "none" /\ kv' = kv)]_vars

(* the source keys of a set-algebra command: all its keys, but for the     *)
(* first (dest) of a STORE variant *)
Sources(l) ==
    IF l.op \in {"SDIFFSTORE", "SINTERSTORE", "SUNIONSTORE"}
    THEN Range(Tail(l.keys)) ELSE Range(l.keys)

(* C7: a set-algebra command with a source key that holds a non-set value  *)
(* ends with the wrong-key-type CmdError.                                  *)
C7_SetAlgebraRejectsNonSets ==
    [][(last'.op \in {"SDIFF", "SINTERSEC", "SUNION", "SDIFFSTORE",
                      "SINTERSTORE", "SUNIONSTORE"}
          /\ \E k \in Sources(last') : k \in DOMAIN kv /\ kv[k].data_type # SET)
       => (last'.exc = "CmdError" /\ last'.msg = WrongType)]_vars

(* the connection handler of c takes a step while request data waits *)
Serves(c, data) ==
    /\ last'.op = "serve"
    /\ last'.c = c
    /\ conn[c].inbuf # <<>>
    /\ Head(conn[c].inbuf) = data

(* C8: when the command of a request raises CmdError, the loop writes one  *)
(* Error frame with the message, adds 1 to command_errors, leaves          *)
(* commands_processed alone and keeps the connection open.                 *)
C8_CmdErrorAnswered ==
    [][\A c \in ConnIds, data \in Requests :
          (Serves(c, data) /\ respond(Cur, data, now).exc = "CmdError")
          => /\ Len(conn'[c].outbuf) = Len(conn[c].outbuf) + 1
             /\ command_errors' = command_errors + 1
             /\ commands_processed' = commands_processed
             /\ conn'[c].pc = "loop"]_vars

(* the request names a registered command with too few or too many         *)
(* arguments *)
ArityMismatch(data) ==
    /\ data.kind = "values"
    /\ data.items # <<>>
    /\ data.items[1].kind = "bytes"
    /\ data.items[1].b \in Commands
    /\ ~ArityOk(data.items[1].b, Len(data.items) - 1)

(* C9: a request for a registered command with the wrong number of         *)
(* arguments is a CmdError.                                                *)
C9_ArityMismatchIsCmdError ==
    (last.op = "respond" /\ ArityMismatch(last.arg)) => last.exc = "CmdError"

(* C10: when handling a request raises an exception other than CmdError,   *)
(* ClientQuit, Shutdown and end of stream, the client receives one Error   *)
(* frame and the connection stays open.                                    *)
C10_UnhandledErrorAnswered ==
    [][\A c \in ConnIds, data \in Requests :
          (Serves(c, data)
             /\ last'.exc \notin {"none", "CmdError", "ClientQuit", "EOFError",
                                  "KeyboardInterrupt"})
          => /\ Len(conn'[c].outbuf) = Len(conn[c].outbuf) + 1
             /\ conn'[c].pc = "loop"]_vars

(* C11: every request read is answered by exactly one response, written   *)
(* before the next request is read: the loop iteration that finds a        *)
(* request waiting consumes it and appends one frame to the output.        *)
C11_OneResponsePerRequestInOrder ==
    [][\A c \in ConnIds, data \in Requests :
          Serves(c, data)
          => /\ conn'[c].inbuf = Tail(conn[c].inbuf)
             /\ Len(conn'[c].outbuf) = Len(conn[c].outbuf) + 1]_vars

(* C12: each command executes atomically with respect to the commands of  *)
(* other connections: an INCR k that completes has added exactly 1 to the  *)
(* value k held when it took effect and returns that new value, so two     *)
(* concurrent INCR k leave k increased by 2 and return different values.   *)
C12_IncrAtomic ==
    [][\A c \in ConnIds :
          (last'.op = "INCR" /\ last'.exc = "none" /\ last'.c = c)
          => LET k == conn[c].key
                 old == IF k \in DOMAIN kv THEN kv[k].value.i ELSE 0
             IN  /\ k \in DOMAIN kv => kv[k].value.kind = "int"
                 /\ kv'[k].value = PyInt(old + 1)
                 /\ last'.ret = PyInt(old + 1)]_vars

(* the handlers in their while loop *)
Running(cn) == {c \in ConnIds : cn[c].pc = "loop"}

(* the connection handler of c finds the end of the stream *)
ServesEOF(c) ==
    /\ last'.op = "serve"
    /\ last'.c = c
    /\ conn[c].closed
    /\ conn[c].inbuf = <<>>

(* C13: active_connections counts the running handlers: a handler that is  *)
(* served QUIT, SHUTDOWN or the end of the stream leaves its loop and the  *)
(* counter is one less.                                                    *)
C13_ActiveConnectionsCountsHandlers ==
    [][/\ active_connections' = Cardinality(Running(conn'))
       /\ \A c \in ConnIds :
             (\/ Serves(c, Values(<<PyBytes("QUIT")>>))
              \/ Serves(c, Values(<<PyBytes("SHUTDOWN")>>))
              \/ ServesEOF(c))
             => (c \notin Running(conn')
                 /\ active_connections' = active_connections - 1)]_vars

(* C14: a connection that issues SHUTDOWN receives the reply 1 and its     *)
(* handler unwinds; after that no connection is accepted or served.        *)
C14_ShutdownUnwinds ==
    [][/\ \A c \in ConnIds :
             Serves(c, Values(<<PyBytes("SHUTDOWN")>>))
             => /\ conn'[c].outbuf = Append(conn[c].outbuf, write_(PyInt(1)).out)
                /\ conn'[c].pc = "interrupted"
       /\ (\E c \in ConnIds : conn[c].pc = "interrupted")
             => last'.op \notin {"accept", "serve"}]_vars

(* C15: when the client has closed its stream and no byte is left, the     *)
(* loop iteration raises the end-of-stream failure and the handler exits.  *)
C15_EndOfStreamTerminates ==
    [][\A c \in ConnIds :
          ServesEOF(c) => (last'.exc = "EOFError" /\ conn'[c].pc = "done")]_vars

(* C16: a sweep at the current time completes without raising, whatever   *)
(* the state (a TTL may be recorded for a key absent from the keyspace),   *)
(* and leaves no key whose expiration is at or before the current time in  *)
(* expiry_map or in the keyspace.                                          *)
C16_SweepCompletes ==
    [][last'.op = "clean_expired"
       => /\ last'.exc = "none"
          /\ \A k \in Keys :
                (k \in DOMAIN expiry_map /\ expiry_map[k] <= now)
                => (k \notin DOMAIN expiry_map' /\ k \notin DOMAIN kv')]_vars

(* C17: once DELETE, MDELETE, POP or MPOP has removed k from the keyspace, *)
(* every heap entry <<ts, k>> is stale: expiry_map does not hold ts for k. *)
C17_DeletedKeyHeapEntriesStale ==
    [][\A k \in Keys :
          (/\ last'.op \in {"DELETE", "MDELETE", "POP", "MPOP"}
           /\ k \in DOMAIN kv
           /\ k \notin DOMAIN kv')
          => \A i \in 1..Len(expiry') :
                expiry'[i][2] = k
                => ~(k \in DOMAIN expiry_map' /\ expiry_map'[k] = expiry'[i][1])]_vars

(* the commands of the table, by the names the steps are recorded under *)
CommandOps ==
    ListOps \cup HashOps \cup SetOps \cup NumOps \cup
    {"APPEND", "DELETE", "EXISTS", "GET", "GETSET", "MDELETE", "MGET", "MPOP",
     "MSET", "MSETEX", "POP", "SET", "SETNX", "SETEX", "LEN", "FLUSH",
     "EXPIRE", "FLUSHALL", "SAVE", "RESTORE", "MERGE"}

(* C18: a command that ends with an error (CmdError or any other           *)
(* exception) leaves the keyspace, the expiration map and heap and the     *)
(* schedule as they were before it started.                                *)
C18_FailedCommandChangesNothing ==
    [][(last'.op \in CommandOps /\ last'.exc # "none")
       => StoreVars' = StoreVars]_vars

(* C19: MERGE path leaves a keyspace whose keys are the union of the       *)
(* in-memory and the on-disk keys; a key of the file has the file's value, *)
(* a key only in memory keeps its value; the schedule is the file's.       *)
C19_MergeDiskWins ==
    [][(last'.op = "MERGE" /\ last'.arg.b \in DOMAIN disk)
       => LET state == disk[last'.arg.b]
          IN  /\ DOMAIN kv' = (DOMAIN kv) \cup (DOMAIN state.kv)
              /\ \A k \in DOMAIN state.kv : kv'[k] = state.kv[k]
              /\ \A k \in (DOMAIN kv) \ (DOMAIN state.kv) : kv'[k] = kv[k]
              /\ schedule' = state.schedule]_vars

(* the store after SAVE filename; FLUSHALL; RESTORE filename, from s *)
RoundTrip(s, filename) ==
    load_from_disk(flush_all(save_to_disk(s, filename).s).s, filename, FALSE).s

(* C20: from every reachable state, SAVE f; FLUSHALL; RESTORE f ends with  *)
(* the same keys, variants and values and the same schedule.  Step by      *)
(* step: SAVE writes the current keyspace and schedule to the file and     *)
(* leaves the store alone, FLUSHALL leaves the file alone, and RESTORE     *)
(* replaces the keyspace and the schedule by the file's.                   *)
C20_SnapshotRoundTrip ==
    [][/\ RoundTrip(Cur, "f").kv = kv
       /\ RoundTrip(Cur, "f").schedule = schedule
       /\ last'.op = "SAVE"
             => /\ disk'[last'.arg.b] = [kv |-> kv, schedule |-> schedule]
                /\ StoreVars' = StoreVars
                /\ last'.ret = PyBool(TRUE)
       /\ last'.op = "FLUSHALL" => (disk' = disk /\ kv' = EmptyMap)
       /\ (last'.op = "RESTORE" /\ last'.arg.b \in DOMAIN disk)
             => /\ kv' = disk[last'.arg.b].kv
                /\ schedule' = disk[last'.arg.b].schedule
                /\ last'.ret = PyBool(TRUE)]_vars

(* RESTORE has just replaced the keyspace by the saved one, a list among   *)
(* its values, with no expiration left in the store                      *)
C20_Witness ==
    /\ last.op = "RESTORE"
    /\ last.ret = PyBool(TRUE)
    /\ DOMAIN kv = Keys
    /\ kv = disk["f"].kv
    /\ \E k \in Keys : kv[k].data_type = QUEUE
    /\ expiry_map = EmptyMap /\ expiry = <<>>

(* the list stored under key, empty when the key is absent *)
ListAt(store, key) == IF key \in DOMAIN store THEN store[key].value.q ELSE <<>>

(* key is absent or holds a list *)
ListOrAbsent(key) == key \notin DOMAIN kv \/ kv[key].data_type = QUEUE

(* C24: RPOPLPUSH src dst with src empty or absent returns 0 and creates   *)
(* no dst; with src non-empty it returns 1 and moves the tail of src to    *)
(* the head of dst.                                                        *)
C24_RpopLpushMovesTail ==
    [][(last'.op = "RPOPLPUSH" /\ ListOrAbsent(last'.keys[1])
          /\ ListOrAbsent(last'.keys[2]))
       => LET src == last'.keys[1]
              dest == last'.keys[2]
              q == ListAt(kv, src)
              front == SubSeq(q, 1, Len(q) - 1)
          IN  /\ last'.exc = "none"
              /\ IF q = <<>>
                 THEN /\ last'.ret = PyInt(0)
                      /\ dest \notin DOMAIN kv => dest \notin DOMAIN kv'
                 ELSE /\ last'.ret = PyInt(1)
                      /\ ListAt(kv', dest) =
                            <<q[Len(q)]>> \o (IF src = dest THEN front
                                              ELSE ListAt(kv, dest))
                      /\ src # dest => ListAt(kv', src) = front]_vars

(* C27: on a key that is absent or holds a list, LPUSH and RPUSH return    *)
(* the number n of values and grow the list by n at the head and at the    *)
(* tail; LPOP returns and removes the head, RPOP the tail, and both return *)
(* None on an empty list.                                                  *)
C27_PushPopEnds ==
    [][(last'.op \in {"LPUSH", "RPUSH", "LPOP", "RPOP"} /\ ListOrAbsent(last'.keys[1]))
       => LET old == ListAt(kv, last'.keys[1])
              new == ListAt(kv', last'.keys[1])
              n == last'.ret.i
          IN  /\ last'.exc = "none"
              /\ last'.op \in {"LPUSH", "RPUSH"}
                    => /\ last'.ret.kind = "int" /\ n >= 1
                       /\ Len(new) = Len(old) + n
                       /\ last'.op = "RPUSH" => SubSeq(new, 1, Len(old)) = old
                       /\ last'.op = "LPUSH" => SubSeq(new, n + 1, Len(new)) = old
              /\ (last'.op \in {"LPOP", "RPOP"} /\ old = <<>>)
                    => (last'.ret = PyNone /\ new = <<>>)
              /\ (last'.op = "LPOP" /\ old # <<>>)
                    => (last'.ret = PyBytes(Head(old)) /\ new = Tail(old))
              /\ (last'.op = "RPOP" /\ old # <<>>)
                    => /\ last'.ret = PyBytes(old[Len(old)])
                       /\ new = SubSeq(old, 1, Len(old) - 1)]_vars

(* the timestamp argument of the step is well-formed *)
WellFormed(timestamp) ==
    timestamp.kind = "bytes" /\ strptime(timestamp.b).exc = "none"

(* the payloads of the entries of a schedule that are due at dt, in the    *)
(* order of the heap, and the entries that are not *)
Due(h, dt) == SelectSeq(h, LAMBDA e : e[1] <= dt)
Later(h, dt) == SelectSeq(h, LAMBDA e : e[1] > dt)

(* C21: ADD with a well-formed timestamp returns 1 and puts the payload in *)
(* the schedule; READ ts returns exactly the payloads whose timestamp is   *)
(* <= ts, in non-decreasing order of timestamp, removes them and leaves    *)
(* the later entries (so a second READ ts returns the empty list).         *)
C21_ReadReturnsDue ==
    [][/\ (last'.op = "ADD" /\ WellFormed(last'.arg))
            => /\ last'.exc = "none" /\ last'.ret = PyInt(1)
               /\ Len(schedule') = Len(schedule) + 1
               /\ \E i \in 1..Len(schedule') :
                     schedule'[i] = <<strptime(last'.arg.b).dt, last'.keys[1]>>
       /\ (last'.op = "READ" /\ WellFormed(last'.arg))
            => LET dt == strptime(last'.arg.b).dt
               IN  /\ last'.exc = "none"
                   /\ last'.ret = PyList([i \in 1..Len(Due(schedule, dt)) |->
                                            Due(schedule, dt)[i][2]])
                   /\ schedule' = Later(schedule, dt)
                   /\ Due(schedule', dt) = <<>>]_vars

(* C22: ADD or READ with a malformed timestamp raises the CmdError         *)
(* 'timestamp must be formatted Y-m-d H:M:S' and leaves the schedule       *)
(* unchanged; with a well-formed timestamp they raise nothing.             *)
C22_MalformedTimestampIsCmdError ==
    [][(last'.op \in {"ADD", "READ"} /\ last'.arg.kind = "bytes")
       => IF WellFormed(last'.arg) THEN last'.exc = "none"
          ELSE /\ last'.exc = "CmdError"
               /\ last'.msg = "timestamp must be formatted Y-m-d H:M:S"
               /\ schedule' = schedule]_vars

(* C23: every value written by the encoder and read back by the decoder    *)
(* is read back equal: neither end raises and the value read is the value  *)
(* written.                                                                *)
C23_CodecRoundTrip ==
    [][last'.op = "codec" => (last'.exc = "none" /\ last'.ret = last'.arg)]_vars

(* the variant that fits the shape of a payload *)
ShapeTag(value) ==
    CASE value.kind = "dict" -> HASH
      [] value.kind = "list" -> QUEUE
      [] value.kind = "set" -> SET
      [] OTHER -> KV

(* C30: the variant tag of every keyspace entry matches the shape of its   *)
(* payload: scalar tag with a scalar, hash tag with a map, list tag with a *)
(* sequence, set tag with a set.                                           *)
C30_TagMatchesPayload ==
    \A key \in DOMAIN kv : kv[key].data_type = ShapeTag(kv[key].value)

(* the connection handlers that have started and not returned *)
Handlers(cn) == {c \in ConnIds : cn[c].pc \notin {"none", "done", "interrupted"}}

(* C25: the number of connection handlers running at the same time never   *)
(* exceeds max_clients.                                                    *)
C25_AtMostMaxClients == Cardinality(Handlers(conn)) <= max_clients

(* C28: when the client of c has disconnected and a request of it waits,   *)
(* so that the write of its response fails, the loop iteration that serves *)
(* the request runs the command, keeps its state change and ends the       *)
(* handler: it leaves the while loop and reads no further request.         *)
C28_FailedWriteEndsHandler ==
    [][\A c \in ConnIds, data \in Requests :
          (Serves(c, data) /\ conn[c].closed)
          => /\ conn'[c].pc # "loop"
             /\ kv' = respond(Cur, data, now).s.kv
             /\ conn'[c].inbuf = Tail(conn[c].inbuf)]_vars

(* the heap h holds the entry e *)
InHeap(h, e) == \E i \in 1..Len(h) : h[i] = e

(* how many times the heap h holds the entry e *)
Copies(h, e) == Cardinality({i \in 1..Len(h) : h[i] = e})

(* C26: a sweep at time now removes from the keyspace no key that has no   *)
(* entry in expiry_map or whose entry is > now, whatever older entries the *)
(* heap holds for the key, and every heap entry with a timestamp > now is  *)
(* in the heap after the sweep as often as before.                         *)
C26_SweepSparesUnexpired ==
    [][last'.op = "clean_expired"
       => /\ \A k \in DOMAIN kv :
                (k \notin DOMAIN expiry_map \/ expiry_map[k] > now)
                => (k \in DOMAIN kv' /\ kv'[k] = kv[k])
          /\ \A i \in 1..Len(expiry) :
                expiry[i][1] > now
                => Copies(expiry', expiry[i]) = Copies(expiry, expiry[i])]_vars

(* a sweep found an entry of the heap at or before now for a key that it   *)
(* kept: the key's TTL had been refreshed to a later time, or cleared      *)
C26_Witness ==
    /\ last.op = "clean_expired"
    /\ \E i \in 1..Len(last.arg.q) :
          LET expires == last.arg.q[i][1]
              k == last.arg.q[i][2]
          IN  /\ expires <= now
              /\ k \in DOMAIN kv
              /\ k \in DOMAIN expiry_map => expiry_map[k] > now
    /\ \E k \in DOMAIN kv :
          /\ k \in DOMAIN expiry_map /\ expiry_map[k] > now
          /\ InHeap(last.arg.q, <<expiry_map[k], k>>)
          /\ \E j \in 1..Len(last.arg.q) :
                last.arg.q[j][2] = k /\ last.arg.q[j][1] <= now

(* C29: for every key k in expiry_map the heap holds the entry             *)
(* <<expiry_map[k], k>>.                                                   *)
C29_RecordedTtlInHeap ==
    \A k \in DOMAIN expiry_map : InHeap(expiry, <<expiry_map[k], k>>)

(* a sweep has reclaimed one key and popped its entry, and another key     *)
(* keeps a recorded TTL that is still to come *)
C29_Witness ==
    /\ last.op = "clean_expired"
    /\ last.ret = PyInt(1)
    /\ Len(expiry) < Len(last.arg.q)
    /\ \E k \in DOMAIN expiry_map : expiry_map[k] > now /\ k \in DOMAIN kv

(* the items of a decoded frame as dispatch sees them: the frame itself    *)
(* when it is an array, the words of a byte string *)
Items(data) ==
    CASE data.kind = "values" -> data.items
      [] data.kind = "bytes" ->
           [i \in 1..Len(Split(data.b)) |-> PyBytes(Split(data.b)[i])]
      [] OTHER -> <<>>

(* the frame names a registered command *)
Registered(data) ==
    /\ Items(data) # <<>>
    /\ Items(data)[1].kind = "bytes"
    /\ Upper(Items(data)[1].b) \in Commands

(* C31: for a decoded frame of any shape, dispatch either invokes the      *)
(* registered handler the frame names, and ends as the handler ends, or    *)
(* raises CmdError and changes no state; it raises no other exception      *)
(* before a handler is invoked.                                            *)
C31_DispatchInvokesOrCmdError ==
    [][last'.op = "respond"
       => IF Registered(last'.arg)
          THEN LET r == Invoke(Cur, Upper(Items(last'.arg)[1].b),
                               Tail(Items(last'.arg)), now)
               IN  /\ last'.exc = r.exc /\ last'.msg = r.msg /\ last'.ret = r.ret
                   /\ kv' = r.s.kv
          ELSE /\ last'.exc = "CmdError"
               /\ StoreVars' = StoreVars]_vars

(* C32: every command name a method of the client library sends is a key   *)
(* of the server's command table: no client method is answered with        *)
(* 'unrecognized command'.                                                 *)
C32_ClientCommandsRegistered ==
    [][last'.op = "client"
       => /\ last'.arg.items[1].b \in Commands
          /\ ~(last'.exc = "CmdError" /\ last'.msg = "unrecognized command")]_vars

============================================================================
